---- MODULE Spec2Model ----
(***************************************************************************)
(* Security and session control plane of the Xero MCP server:              *)
(*   - OAuth2 authorization-code + PKCE flow (auth start, callback)        *)
(*   - token rows, MCP sessions                                            *)
(*   - JSON-RPC protocol endpoint (POST /api/mcp) and tool calls           *)
(*   - signed webhook ingestion with the in-memory dedup ledger            *)
(* Time is counted in minutes.  Every await of the source is a step of the *)
(* handler that executes it; handlers of different requests interleave at  *)
(* those steps.                                                            *)
(***************************************************************************)
EXTENDS Integers, Sequences, FiniteSets, TLC

VARIABLES
    now,             \* Date.now(), in minutes
    ticks,           \* number of clock advances taken so far
    ivCount,         \* number of IVs drawn by randomBytes(16) so far
    grants,          \* number of token sets issued by the authorization server
    \* ---- durable store (db.*) ----
    oauthStates,     \* db.oAuthState : state -> row | None
    tokens,          \* db.oAuthToken : sequence of rows, id = index
    sessions,        \* db.mCPSession : sessionId -> row | None
    connections,     \* db.xeroConnection : tenantId -> accountId | None
    \* ---- per-process memory ----
    pkceStore,       \* globalThis.pkceStore : state -> verifier | None
    \* ---- OAuth handlers ----
    issued,          \* history: state -> what auth start persisted for it
    cb,              \* callback handlers: proc -> locals
    cbLog,           \* completed callbacks, in order of completion
    exchanges,       \* state -> number of token-exchange requests sent for it
    \* ---- protocol endpoint ----
    rq,              \* POST /api/mcp handlers: proc -> locals and last response
    reqCount,        \* number of requests received so far
    apiUse,          \* sessionId -> tenants the accounting API was called for
    refreshCalls,    \* token row id -> number of refresh exchanges sent for it
    \* ---- webhook endpoint ----
    webhookSecret,   \* process.env.XERO_WEBHOOK_KEY, or None
    processedEvents, \* in-memory Map, keys of EventIds: Date.now() when marked | NoId
    webhookEvents,   \* db.webhookEvent rows, with the requestId that wrote them
    otherEvents,     \* entries of the Map under other keys: how many, and when marked
    wh,              \* deliveries: number -> handler locals and response
    \* ---- session manager ----
    sessionCount,    \* number of session ids drawn by randomBytes(32) so far
    revocations,     \* revokeMCPSession calls so far, with how each ended
    \* ---- encryption ----
    encryptionEnv,   \* process.env.ENCRYPTION_KEY, or None
    box,             \* encrypt calls so far, each with the decrypt of its output
    \* ---- error handler ----
    xeroErrors       \* handleXeroError calls so far: the error and the AppError

vars == << now, ticks, ivCount, grants, oauthStates, tokens, sessions,
           connections, pkceStore, issued, cb, cbLog, exchanges,
           rq, reqCount, apiUse, refreshCalls,
           webhookSecret, processedEvents, otherEvents, webhookEvents, wh,
           sessionCount, revocations, encryptionEnv, box, xeroErrors >>

\* the variables of the protocol endpoint
mcpVars == << rq, reqCount, apiUse, refreshCalls >>

\* the variables of the session manager besides the session rows
sessVars == << sessionCount, revocations >>

\* the variables of the encryption utilities
boxVars == << encryptionEnv, box >>

\* the variables of the error handler
errVars == << xeroErrors >>

\* the variables of the webhook endpoint
whVars == << webhookSecret, processedEvents, otherEvents, webhookEvents, wh >>

\* the variables of the OAuth handlers
authVars == << oauthStates, connections, pkceStore, issued, cb, cbLog,
               exchanges >>

\* absent values: of a string, of a row, of an id
None == "none"
NoRow == [absent |-> TRUE]
NoId == -1

\* ---------------------------------------------------------------------------
\* Bounds of the model
\* ---------------------------------------------------------------------------
MaxTicks == 1
MaxStates == 2
MaxCallbacks == 2
NumCallbackProcs == 2
MaxSessions == 1
MaxTokenRows == 2
MaxRequests == 2
NumRequestProcs == 2
MaxMcpTicks == 1
MaxGateTicks == 2
MaxDeliveries == 2
MaxGateDeliveries == 1
MaxBatch == 2
MaxWebhookTicks == 2
MaxOtherKeys == 1000
MaxVaultTicks == 2

\* ---------------------------------------------------------------------------
\* Program constants (minutes)
\* ---------------------------------------------------------------------------
STATE_TTL == 10
SESSION_TTL == 1440
FIVE_MINUTES == 5
EVENT_EXPIRY == 1440
LEDGER_LIMIT == 1000

Accounts == {"a1", "a2"}
Tenants == {"t1", "t2"}
\* the accounts whose owners start a login
LoginAccounts == {"a1"}
States == 1 .. MaxStates
ForgedState == 0
CbProcs == 1 .. NumCallbackProcs
GateDeliveries == 1 .. MaxGateDeliveries
Deliveries ==
    1 .. (IF MaxDeliveries > MaxGateDeliveries THEN MaxDeliveries
          ELSE MaxGateDeliveries)
RqProcs == 1 .. NumRequestProcs
TokenIds == 1 .. (MaxTokenRows + 3 * MaxStates)

\* ---------------------------------------------------------------------------
\* Clock
\* ---------------------------------------------------------------------------
AuthJumps == {STATE_TTL}

Advance(J, max) ==
    /\ ticks < max
    /\ \E d \in J : now' = now + d
    /\ ticks' = ticks + 1

\* ---------------------------------------------------------------------------
\* Encryption utilities: "<iv hex>:<ciphertext hex>"
\* ---------------------------------------------------------------------------
encrypt(text, iv) == [iv |-> iv, data |-> text]

decrypt(encryptedText) == encryptedText.data

\* a stored text that decipher.update / decipher.final reject under the key
\* of the process: damaged, or written under another key
BadCipher == -2
Garbled(encryptedText) == [encryptedText EXCEPT !.data = BadCipher]
DecryptThrows(encryptedText) == encryptedText.data = BadCipher

\* ---------------------------------------------------------------------------
\* db.oAuthState / db.oAuthToken / db.mCPSession helpers
\* ---------------------------------------------------------------------------
storeOAuthState(state, accountId) ==
    oauthStates' = [oauthStates EXCEPT
                      ![state] = [accountId |-> accountId,
                                  expiresAt |-> now + STATE_TTL]]

\* the row appended by storeTokens; the two fields get the IVs iv1, iv2
TokenRow(accountId, tok, tenantId, iv1, iv2) ==
    [ accountId    |-> accountId,
      tenantId     |-> tenantId,
      accessToken  |-> encrypt(tok.access_token, iv1),
      refreshToken |-> encrypt(tok.refresh_token, iv2),
      expiresAt    |-> now + tok.expires_in,
      createdAt    |-> now ]

storeTokens(rows, accountId, tok, tenantId, iv) ==
    Append(rows, TokenRow(accountId, tok, tenantId, iv + 1, iv + 2))

createMCPSession(sess, sessionId, accountId, tenantId) ==
    [sess EXCEPT ![sessionId] = [accountId |-> accountId,
                                 tenantId  |-> tenantId,
                                 expiresAt |-> now + SESSION_TTL]]

\* ---------------------------------------------------------------------------
\* Authorization server (external): the token set it issues on the n-th grant
\* ---------------------------------------------------------------------------
\* expires_in of the token sets the authorization server grants (1800 s)
ExpiresIn == 30

TokenSet(n, e) == [access_token |-> n, refresh_token |-> n, expires_in |-> e]

\* the tenant lists xeroClient.updateTenants() can yield
TenantLists == { <<>>, <<"t1", "t2">> }

\* ---------------------------------------------------------------------------
\* GET /api/auth/xero  (auth start)
\* ---------------------------------------------------------------------------
FreshStates == { s \in States : issued[s] = NoRow }

\* generateOAuthState / generatePKCEChallenge draw 32 random bytes each: the
\* state is one never drawn before, and the verifier is named after it
\* A missing accountId is answered 400 and an unknown one 404, neither writes
AuthStart(accountId) ==
    /\ \/ /\ accountId \notin Accounts
          /\ UNCHANGED << oauthStates, pkceStore, issued >>
       \/ /\ accountId \in Accounts
          /\ FreshStates # {}
          /\ LET state == CHOOSE s \in FreshStates :
                              \A t \in FreshStates : s <= t
                 verifier == state
             IN /\ storeOAuthState(state, accountId)
                /\ pkceStore' = [pkceStore EXCEPT ![state] = verifier]
                /\ issued' = [issued EXCEPT
                                ![state] = [accountId |-> accountId,
                                            expiresAt |-> now + STATE_TTL,
                                            verifier  |-> verifier]]
    /\ UNCHANGED << now, ticks, ivCount, grants, tokens, sessions,
                    connections, cb, cbLog, exchanges >>
    /\ UNCHANGED mcpVars
    /\ UNCHANGED whVars
    /\ UNCHANGED sessVars
    /\ UNCHANGED boxVars
    /\ UNCHANGED errVars

\* ---------------------------------------------------------------------------
\* GET /api/auth/callback
\* ---------------------------------------------------------------------------
IdleCb == [ pc |-> "idle", state |-> NoId, row |-> NoRow,
            account |-> None, verifier |-> NoId, tok |-> NoRow,
            tenants |-> <<>>, readAt |-> 0, passed |-> FALSE ]

InFlight == { p \in CbProcs : cb[p].pc # "idle" }

\* the handler returns Response.redirect(...): the outcome is logged and the
\* handler instance is free again (a new request takes the lowest free one)
Redirect(p, outcome, sessionId) ==
    /\ cbLog' = Append(cbLog, [ state     |-> cb[p].state,
                                readAt    |-> cb[p].readAt,
                                found     |-> cb[p].row # NoRow,
                                passed    |-> cb[p].passed,
                                result    |-> outcome,
                                sessionId |-> sessionId ])
    /\ cb' = [cb EXCEPT ![p] = IdleCb]

\* lines 10-23: parameters; kind is "ok" (code and state present),
\* "error" (?error=...) or "missing" (code or state absent)
CallbackBegin(p, kind, state) ==
    /\ cb[p].pc = "idle"
    /\ \A q \in CbProcs : cb[q].pc = "idle" => p <= q
    /\ Len(cbLog) + Cardinality(InFlight) < MaxCallbacks
    /\ \/ /\ kind = "error"
          /\ cbLog' = Append(cbLog, [ state |-> NoId, readAt |-> now,
                                      found |-> FALSE, passed |-> FALSE,
                                      result |-> "oauth_error",
                                      sessionId |-> NoId ])
          /\ cb' = cb
       \/ /\ kind = "missing"
          /\ cbLog' = Append(cbLog, [ state |-> NoId, readAt |-> now,
                                      found |-> FALSE, passed |-> FALSE,
                                      result |-> "missing_params",
                                      sessionId |-> NoId ])
          /\ cb' = cb
       \/ /\ kind = "ok"
          /\ cb' = [cb EXCEPT ![p] = [IdleCb EXCEPT !.pc = "find",
                                                    !.state = state]]
          /\ cbLog' = cbLog
    /\ UNCHANGED << now, ticks, ivCount, grants, oauthStates, tokens,
                    sessions, connections, pkceStore, issued,
                    exchanges >>
    /\ UNCHANGED mcpVars
    /\ UNCHANGED whVars
    /\ UNCHANGED sessVars
    /\ UNCHANGED boxVars
    /\ UNCHANGED errVars

\* the expiry test with >= in place of >: valid through the instant expiresAt
StateRowValid_inclusive(row, t) == row # NoRow /\ row.expiresAt >= t

\* the row validateOAuthState accepts: present and not expired
StateRowValid(row, t) == row # NoRow /\ row.expiresAt > t

\* the callback without the test of line 27: a state with no row goes on
validateOAuthState_find_noCheck(p) ==
    /\ cb[p].pc = "find"
    /\ LET row == oauthStates[cb[p].state]
       IN IF row = NoRow
          THEN /\ cb' = [cb EXCEPT ![p].pc = "verifier",
                                   ![p].readAt = now,
                                   ![p].passed = TRUE]
               /\ cbLog' = cbLog
          ELSE IF StateRowValid(row, now)
          THEN /\ cb' = [cb EXCEPT ![p].pc = "delete",
                                   ![p].row = row,
                                   ![p].readAt = now]
               /\ cbLog' = cbLog
          ELSE /\ cbLog' = Append(cbLog, [ state |-> cb[p].state,
                                           readAt |-> now,
                                           found |-> TRUE,
                                           passed |-> FALSE,
                                           result |-> "invalid_state",
                                           sessionId |-> NoId ])
               /\ cb' = [cb EXCEPT ![p] = IdleCb]
    /\ UNCHANGED << now, ticks, ivCount, grants, oauthStates, tokens,
                    sessions, connections, pkceStore, issued,
                    exchanges >>
    /\ UNCHANGED mcpVars
    /\ UNCHANGED whVars
    /\ UNCHANGED sessVars
    /\ UNCHANGED boxVars
    /\ UNCHANGED errVars

\* validateOAuthState, db.oAuthState.findUnique and the expiry test
validateOAuthState_find(p) ==
    /\ cb[p].pc = "find"
    /\ LET row == oauthStates[cb[p].state]
       IN IF StateRowValid(row, now)
          THEN /\ cb' = [cb EXCEPT ![p].pc = "delete",
                                   ![p].row = row,
                                   ![p].readAt = now]
               /\ cbLog' = cbLog
          ELSE /\ cbLog' = Append(cbLog, [ state |-> cb[p].state,
                                           readAt |-> now,
                                           found |-> row # NoRow,
                                           passed |-> FALSE,
                                           result |-> "invalid_state",
                                           sessionId |-> NoId ])
               /\ cb' = [cb EXCEPT ![p] = IdleCb]
    /\ UNCHANGED << now, ticks, ivCount, grants, oauthStates, tokens,
                    sessions, connections, pkceStore, issued,
                    exchanges >>
    /\ UNCHANGED mcpVars
    /\ UNCHANGED whVars
    /\ UNCHANGED sessVars
    /\ UNCHANGED boxVars
    /\ UNCHANGED errVars

\* validateOAuthState without the delete: the state stays usable
validateOAuthState_keepRow(p) ==
    /\ cb[p].pc = "delete"
    /\ oauthStates' = oauthStates
    /\ cb' = [cb EXCEPT ![p].pc = "verifier",
                        ![p].account = cb[p].row.accountId,
                        ![p].passed = TRUE]
    /\ cbLog' = cbLog
    /\ UNCHANGED << now, ticks, ivCount, grants, tokens, sessions,
                    connections, pkceStore, issued, exchanges >>
    /\ UNCHANGED mcpVars
    /\ UNCHANGED whVars
    /\ UNCHANGED sessVars
    /\ UNCHANGED boxVars
    /\ UNCHANGED errVars

\* validateOAuthState with a delete that tolerates a missing row (deleteMany)
validateOAuthState_deleteMany(p) ==
    /\ cb[p].pc = "delete"
    /\ oauthStates' = [oauthStates EXCEPT ![cb[p].state] = NoRow]
    /\ cb' = [cb EXCEPT ![p].pc = "verifier",
                        ![p].account = cb[p].row.accountId,
                        ![p].passed = TRUE]
    /\ cbLog' = cbLog
    /\ UNCHANGED << now, ticks, ivCount, grants, tokens, sessions,
                    connections, pkceStore, issued, exchanges >>
    /\ UNCHANGED mcpVars
    /\ UNCHANGED whVars
    /\ UNCHANGED sessVars
    /\ UNCHANGED boxVars
    /\ UNCHANGED errVars

\* validateOAuthState, db.oAuthState.delete({where: {id}}): Prisma rejects
\* the delete of a row that is gone, and the route's catch answers
\* callback_error
validateOAuthState_delete(p) ==
    /\ cb[p].pc = "delete"
    /\ IF oauthStates[cb[p].state] # NoRow
       THEN /\ oauthStates' = [oauthStates EXCEPT ![cb[p].state] = NoRow]
            /\ cb' = [cb EXCEPT ![p].pc = "verifier",
                                ![p].account = cb[p].row.accountId,
                                ![p].passed = TRUE]
            /\ cbLog' = cbLog
       ELSE /\ oauthStates' = oauthStates
            /\ Redirect(p, "callback_error", NoId)
    /\ UNCHANGED << now, ticks, ivCount, grants, tokens, sessions,
                    connections, pkceStore, issued, exchanges >>
    /\ UNCHANGED mcpVars
    /\ UNCHANGED whVars
    /\ UNCHANGED sessVars
    /\ UNCHANGED boxVars
    /\ UNCHANGED errVars

\* getCache<string>(cacheKeys.pkce(state)): what the cache can answer for the
\* key of a state, a miss or the verifier generated with that state
getCache(state) == {NoId} \cup {issued[s].verifier : s \in {state} \cap
                                      {t \in States : issued[t] # NoRow}}

\* lines 31-36.  cacheKeys of app/lib/cache.ts has no member pkce, so with
\* that module the call cacheKeys.pkce(state) throws and the catch of the
\* route answers callback_error; with a cache module that has the key and
\* getCache, the lookup misses or hits.
CallbackGetVerifier(p) ==
    /\ cb[p].pc = "verifier"
    /\ \/ Redirect(p, "callback_error", NoId)
       \/ \E verifier \in getCache(cb[p].state) :
             IF verifier = NoId
             THEN Redirect(p, "missing_verifier", NoId)
             ELSE /\ cb' = [cb EXCEPT ![p].pc = "deleteVerifier",
                                      ![p].verifier = verifier]
                  /\ cbLog' = cbLog
    /\ UNCHANGED << now, ticks, ivCount, grants, oauthStates, tokens,
                    sessions, connections, pkceStore, issued,
                    exchanges >>
    /\ UNCHANGED mcpVars
    /\ UNCHANGED whVars
    /\ UNCHANGED sessVars
    /\ UNCHANGED boxVars
    /\ UNCHANGED errVars

\* lines 38-39: deleteCache(cacheKeys.pkce(state))
CallbackDeleteVerifier(p) ==
    /\ cb[p].pc = "deleteVerifier"
    /\ cb' = [cb EXCEPT ![p].pc = "exchange"]
    /\ UNCHANGED << now, ticks, ivCount, grants, oauthStates, tokens,
                    sessions, connections, pkceStore, issued, cbLog, exchanges >>
    /\ UNCHANGED mcpVars
    /\ UNCHANGED whVars
    /\ UNCHANGED sessVars
    /\ UNCHANGED boxVars
    /\ UNCHANGED errVars

\* exchangeCodeForTokens: one POST to the token endpoint; a non-2xx answer
\* throws and the route's catch answers callback_error.  The server accepts
\* or refuses the code; it accepts only with the verifier of the challenge.
exchangeCodeForTokens(p) ==
    /\ cb[p].pc = "exchange"
    /\ exchanges' = [exchanges EXCEPT ![cb[p].state] = @ + 1]
    /\ \/ /\ cb[p].verifier = issued[cb[p].state].verifier
          /\ cb' = [cb EXCEPT ![p].pc = "store",
                             ![p].tok = TokenSet(grants + 1, ExpiresIn)]
          /\ grants' = grants + 1
          /\ cbLog' = cbLog
       \/ /\ grants' = grants
          /\ Redirect(p, "callback_error", NoId)
    /\ UNCHANGED << now, ticks, ivCount, oauthStates, tokens, sessions,
                    connections, pkceStore, issued >>
    /\ UNCHANGED mcpVars
    /\ UNCHANGED whVars
    /\ UNCHANGED sessVars
    /\ UNCHANGED boxVars
    /\ UNCHANGED errVars

\* lines 44-52: storeTokens(account.id, tokens), then updateTenants()
CallbackStoreTokens(p) ==
    /\ cb[p].pc = "store"
    /\ tokens' = storeTokens(tokens, cb[p].account, cb[p].tok, None, ivCount)
    /\ ivCount' = ivCount + 2
    /\ \E ts \in TenantLists :
          cb' = [cb EXCEPT ![p].pc = "tenants", ![p].tenants = ts]
    /\ UNCHANGED << now, ticks, grants, oauthStates, sessions, connections,
                    pkceStore, issued, cbLog,
                    exchanges >>
    /\ UNCHANGED mcpVars
    /\ UNCHANGED whVars
    /\ UNCHANGED sessVars
    /\ UNCHANGED boxVars
    /\ UNCHANGED errVars

\* storeXeroConnection: upsert keyed by tenantId; the update branch leaves
\* accountId as it was
storeXeroConnection(conn, accountId, tenantId) ==
    IF conn[tenantId] = None
    THEN [conn EXCEPT ![tenantId] = accountId]
    ELSE conn

\* lines 54-59: the tenant loop, a connection and a token row per tenant
RECURSIVE StoreTenantConnections(_, _, _)
StoreTenantConnections(conn, accountId, ts) ==
    IF ts = <<>> THEN conn
    ELSE StoreTenantConnections(storeXeroConnection(conn, accountId, Head(ts)),
                                accountId, Tail(ts))

RECURSIVE StoreTenantTokens(_, _, _, _, _)
StoreTenantTokens(rows, accountId, tok, ts, iv) ==
    IF ts = <<>> THEN rows
    ELSE StoreTenantTokens(storeTokens(rows, accountId, tok, Head(ts), iv),
                           accountId, tok, Tail(ts), iv + 2)

CallbackStoreTenants(p) ==
    /\ cb[p].pc = "tenants"
    /\ connections' = StoreTenantConnections(connections, cb[p].account,
                                             cb[p].tenants)
    /\ tokens' = StoreTenantTokens(tokens, cb[p].account, cb[p].tok,
                                   cb[p].tenants, ivCount)
    /\ ivCount' = ivCount + 2 * Len(cb[p].tenants)
    /\ cb' = [cb EXCEPT ![p].pc = "session"]
    /\ UNCHANGED << now, ticks, grants, oauthStates, sessions, pkceStore,
                    issued, cbLog, exchanges >>
    /\ UNCHANGED mcpVars
    /\ UNCHANGED whVars
    /\ UNCHANGED sessVars
    /\ UNCHANGED boxVars
    /\ UNCHANGED errVars

\* randomBytes(32).toString('hex'): a session id never issued before
SessionIds == 1 .. (MaxStates + MaxSessions)

FreshSessionId == sessionCount + 1

\* lines 61-70: createMCPSession(account.id) and the success redirect
CallbackCreateSession(p) ==
    /\ cb[p].pc = "session"
    /\ sessions' = createMCPSession(sessions, FreshSessionId,
                                    cb[p].account, None)
    /\ Redirect(p, "success", FreshSessionId)
    /\ UNCHANGED << now, ticks, ivCount, grants, oauthStates, tokens,
                    connections, pkceStore, issued, exchanges >>
    /\ UNCHANGED mcpVars
    /\ UNCHANGED whVars
    /\ UNCHANGED boxVars
    /\ UNCHANGED errVars
    /\ sessionCount' = sessionCount + 1
    /\ UNCHANGED revocations

TickAuth ==
    /\ Advance(AuthJumps, MaxTicks)
    /\ UNCHANGED << ivCount, grants, oauthStates, tokens, sessions,
                    connections, pkceStore, issued, cb,
                    cbLog, exchanges >>
    /\ UNCHANGED mcpVars
    /\ UNCHANGED whVars
    /\ UNCHANGED sessVars
    /\ UNCHANGED boxVars
    /\ UNCHANGED errVars

\* ---------------------------------------------------------------------------
\* Session manager
\* ---------------------------------------------------------------------------
\* validateMCPSession: the row, or null when absent or expired
validateMCPSession(sessionId) ==
    IF sessionId \notin SessionIds THEN NoRow
    ELSE IF sessions[sessionId] = NoRow \/ sessions[sessionId].expiresAt < now
         THEN NoRow
         ELSE sessions[sessionId]

\* XeroMCPServer.createSession(accountId, tenantId?)
createSession(accountId, tenantId) ==
    /\ sessionCount < MaxSessions
    /\ sessions' = createMCPSession(sessions, FreshSessionId, accountId,
                                    tenantId)
    /\ UNCHANGED << now, ticks, ivCount, grants, tokens >>
    /\ UNCHANGED authVars
    /\ UNCHANGED mcpVars
    /\ UNCHANGED whVars
    /\ UNCHANGED boxVars
    /\ UNCHANGED errVars
    /\ sessionCount' = sessionCount + 1
    /\ UNCHANGED revocations

\* storeTokens(accountId, tokens, tenantId?) with a token set just granted
storeTokensCall(accountId, tenantId) ==
    /\ Len(tokens) < MaxTokenRows
    /\ tokens' = storeTokens(tokens, accountId, TokenSet(grants + 1, ExpiresIn),
                             tenantId, ivCount)
    /\ ivCount' = ivCount + 2
    /\ grants' = grants + 1
    /\ UNCHANGED << now, ticks, sessions >>
    /\ UNCHANGED authVars
    /\ UNCHANGED mcpVars
    /\ UNCHANGED whVars
    /\ UNCHANGED sessVars
    /\ UNCHANGED boxVars
    /\ UNCHANGED errVars

\* ---------------------------------------------------------------------------
\* POST /api/mcp and XeroMCPServer
\* ---------------------------------------------------------------------------
CODE_SESSION_REQUIRED == -32000
CODE_INVALID_SESSION == -32001
CODE_METHOD_NOT_FOUND == -32601
CODE_INTERNAL == -32603
\* the code mapToMCPErrorCode gives to authentication errors
CODE_AUTHENTICATION == -32001

KnownTools == {"list-accounts"}

\* the requests a client sends: method, tool name, tenantId argument
ToolCalls ==
    { [method |-> "tools/call", tool |-> "list-accounts", tenantArg |-> t] :
          t \in Tenants \cup {None} }

Requests ==
    { [method |-> m, tool |-> None, tenantArg |-> None] :
          m \in {"initialize", "tools/list", "no/such/method"} }
    \cup ToolCalls
    \cup { [method |-> "tools/call", tool |-> "no-such-tool", tenantArg |-> None] }

\* the sessions created and the token rows stored in the runs explored
SessionInputs == { <<"a1", None>>, <<"a1", "t1">> }
TokenInputs == { <<"a1", "t1">>, <<"a1", "t2">>, <<"a2", "t1">> }

IdleRq == [ pc |-> "idle", sid |-> NoId, method |-> None, tool |-> None,
            tenantArg |-> None, at |-> 0, account |-> None, tenant |-> None,
            row |-> 0, access |-> 0, newTok |-> NoRow, api |-> FALSE,
            refreshes |-> 0, tokenResult |-> None, refreshToken |-> 0,
            message |-> None, id |-> None, crypto |-> FALSE,
            status |-> 0, kind |-> None, code |-> 0 ]

\* the handlers that are answering a request, and those that have answered
Busy == { p \in RqProcs : rq[p].pc \notin {"idle", "done"} }
Done == { p \in RqProcs : rq[p].pc = "done" }

\* a new request goes to a handler that never served, else to one that has
\* answered (the lowest of them)
TakesRequest(p) ==
    LET idle == { q \in RqProcs : rq[q].pc = "idle" }
    IN IF idle # {}
       THEN p \in idle /\ \A q \in idle : p <= q
       ELSE p \in Done /\ \A q \in Done : p <= q

\* the response leaves; kind is "result" or "error" (JSON-RPC envelopes) or
\* "content" (the bare object a tool handler returns).  The handler keeps
\* its last response until it takes the next request.
Respond(p, r, status, kind, code) ==
    rq' = [rq EXCEPT ![p] = [r EXCEPT !.pc = "done", !.newTok = NoRow,
                                      !.status = status, !.kind = kind,
                                      !.code = code,
                                      !.id = IF kind = "content"
                                             THEN None ELSE "request.id"]]

\* the catch of POST, part_002 lines 64-78: an envelope with id null, HTTP 500
RespondFromCatch(p, r) ==
    rq' = [rq EXCEPT ![p] = [r EXCEPT !.pc = "done", !.newTok = NoRow,
                                      !.status = 500, !.kind = "error",
                                      !.code = CODE_INTERNAL,
                                      !.message = "Internal error",
                                      !.id = "null"]]

\* a request body that is not JSON; a tools/call without params; a tenantId
\* argument that is not a string
NotJsonBody == "not-json"
NoParams == "no-params"
BadArg == "not-a-string"

\* POST answering a missing session id like an invalid one
POST_mcp_sameCode(p, sid, method, tool, tenantArg) ==
    /\ TakesRequest(p)
    /\ reqCount < MaxRequests
    /\ reqCount' = reqCount + 1
    /\ LET r == [IdleRq EXCEPT !.sid = sid, !.method = method,
                               !.tool = tool, !.tenantArg = tenantArg,
                               !.at = now]
       IN IF sid = NoId \/ validateMCPSession(sid) = NoRow
          THEN Respond(p, [r EXCEPT !.message = "Invalid or expired session"],
                       401, "error", CODE_INVALID_SESSION)
          ELSE IF method \in {"initialize", "tools/list"}
          THEN Respond(p, r, 200, "result", 0)
          ELSE IF method # "tools/call" \/ tool \notin KnownTools
          THEN Respond(p, r, 200, "error", CODE_METHOD_NOT_FOUND)
          ELSE rq' = [rq EXCEPT ![p] = [r EXCEPT !.pc = "client"]]
    /\ UNCHANGED << now, ticks, ivCount, grants, tokens, sessions,
                    apiUse, refreshCalls >>
    /\ UNCHANGED authVars
    /\ UNCHANGED whVars
    /\ UNCHANGED sessVars
    /\ UNCHANGED boxVars
    /\ UNCHANGED errVars

\* POST telling an expired session from an unknown one
POST_mcp_expiredMessage(p, sid, method, tool, tenantArg) ==
    /\ TakesRequest(p)
    /\ reqCount < MaxRequests
    /\ reqCount' = reqCount + 1
    /\ LET r == [IdleRq EXCEPT !.sid = sid, !.method = method,
                               !.tool = tool, !.tenantArg = tenantArg,
                               !.at = now]
       IN IF sid = NoId
          THEN Respond(p, [r EXCEPT !.message = "Session ID required"],
                       401, "error", CODE_SESSION_REQUIRED)
          ELSE IF validateMCPSession(sid) = NoRow
          THEN Respond(p, [r EXCEPT !.message =
                                IF sid \in SessionIds /\ sessions[sid] # NoRow
                                THEN "Session expired"
                                ELSE "Invalid or expired session"],
                       401, "error", CODE_INVALID_SESSION)
          ELSE IF method \in {"initialize", "tools/list"}
          THEN Respond(p, r, 200, "result", 0)
          ELSE IF method # "tools/call"
          THEN Respond(p, r, 200, "error", CODE_METHOD_NOT_FOUND)
          ELSE IF tool \notin KnownTools
          THEN Respond(p, r, 200, "error", CODE_METHOD_NOT_FOUND)
          ELSE rq' = [rq EXCEPT ![p] = [r EXCEPT !.pc = "client"]]
    /\ UNCHANGED << now, ticks, ivCount, grants, tokens, sessions,
                    apiUse, refreshCalls >>
    /\ UNCHANGED authVars
    /\ UNCHANGED whVars
    /\ UNCHANGED sessVars
    /\ UNCHANGED boxVars
    /\ UNCHANGED errVars

\* POST, lines 20-57, and processRequest up to the first await of a tool:
\* the session checks come before the method is looked at
POST_mcp(p, sid, method, tool, tenantArg) ==
    /\ TakesRequest(p)
    /\ reqCount < MaxRequests
    /\ reqCount' = reqCount + 1
    /\ LET r == [IdleRq EXCEPT !.sid = sid, !.method = method,
                               !.tool = tool, !.tenantArg = tenantArg,
                               !.at = now]
       IN IF method = NotJsonBody
          THEN RespondFromCatch(p, r)
          ELSE IF sid = NoId
          THEN Respond(p, [r EXCEPT !.message = "Session ID required"],
                       401, "error", CODE_SESSION_REQUIRED)
          ELSE IF validateMCPSession(sid) = NoRow
          THEN Respond(p, [r EXCEPT !.message = "Invalid or expired session"],
                       401, "error", CODE_INVALID_SESSION)
          ELSE IF method \in {"initialize", "tools/list"}
          THEN Respond(p, r, 200, "result", 0)
          ELSE IF method # "tools/call"
          THEN Respond(p, r, 200, "error", CODE_METHOD_NOT_FOUND)
          ELSE IF tool = NoParams
          THEN Respond(p, r, 200, "error", CODE_INTERNAL)
          ELSE IF tool \notin KnownTools
          THEN Respond(p, r, 200, "error", CODE_METHOD_NOT_FOUND)
          ELSE rq' = [rq EXCEPT ![p] = [r EXCEPT !.pc = "client"]]
    /\ UNCHANGED << now, ticks, ivCount, grants, tokens, sessions,
                    apiUse, refreshCalls >>
    /\ UNCHANGED authVars
    /\ UNCHANGED whVars
    /\ UNCHANGED sessVars
    /\ UNCHANGED boxVars
    /\ UNCHANGED errVars

\* getXeroClient letting the explicit argument override the session's tenant
EffectiveTenant_override(session, tenantId) ==
    IF tenantId # None THEN tenantId
    ELSE IF session.tenantId # None THEN session.tenantId
    ELSE "missing"

\* getXeroClient, lines 490-509: "mismatch", "missing" or the effective tenant
EffectiveTenant(session, tenantId) ==
    IF tenantId # None /\ session.tenantId # None
                       /\ tenantId # session.tenantId
    THEN "mismatch"
    ELSE IF tenantId # None THEN tenantId
    ELSE IF session.tenantId # None THEN session.tenantId
    ELSE "missing"

\* a tool handler whose exceptions no handler of the server catches: they
\* reach the catch of POST
getXeroClient_uncaught(p) ==
    /\ rq[p].pc = "client"
    /\ LET session == validateMCPSession(rq[p].sid)
       IN IF rq[p].tenantArg = BadArg \/ session = NoRow
          THEN RespondFromCatch(p, rq[p])
          ELSE LET eff == EffectiveTenant(session, rq[p].tenantArg)
               IN IF eff \in {"mismatch", "missing"}
                  THEN RespondFromCatch(p, [rq[p] EXCEPT
                                               !.account = session.accountId])
                  ELSE rq' = [rq EXCEPT ![p].pc = "tokens",
                                        ![p].account = session.accountId,
                                        ![p].tenant = eff]
    /\ UNCHANGED << now, ticks, ivCount, grants, tokens, sessions,
                    reqCount, apiUse, refreshCalls >>
    /\ UNCHANGED authVars
    /\ UNCHANGED whVars
    /\ UNCHANGED sessVars
    /\ UNCHANGED boxVars
    /\ UNCHANGED errVars

\* the tool handler up to getXeroClient: Schema.parse(args), line 512, then
\* getXeroClient; every throw is caught by handleCallTool, lines 885-895
getXeroClient(p) ==
    /\ rq[p].pc = "client"
    /\ LET session == validateMCPSession(rq[p].sid)
       IN IF rq[p].tenantArg = BadArg \/ session = NoRow
          THEN Respond(p, rq[p], 200, "error", CODE_INTERNAL)
          ELSE LET eff == EffectiveTenant(session, rq[p].tenantArg)
               IN IF eff \in {"mismatch", "missing"}
                  THEN Respond(p, [rq[p] EXCEPT !.account = session.accountId],
                               200, "error", CODE_INTERNAL)
                  ELSE rq' = [rq EXCEPT ![p].pc = "tokens",
                                        ![p].account = session.accountId,
                                        ![p].tenant = eff]
    /\ UNCHANGED << now, ticks, ivCount, grants, tokens, sessions,
                    reqCount, apiUse, refreshCalls >>
    /\ UNCHANGED authVars
    /\ UNCHANGED whVars
    /\ UNCHANGED sessVars
    /\ UNCHANGED boxVars
    /\ UNCHANGED errVars

\* the where clause without the accountId filter
TokenMatches_anyAccount(row, accountId, tenantId) ==
    /\ tenantId = None \/ row.tenantId = tenantId
    /\ row.expiresAt > now

\* the where clause of getValidTokens; an undefined tenantId is no filter
TokenMatches(row, accountId, tenantId) ==
    /\ row.accountId = accountId
    /\ tenantId = None \/ row.tenantId = tenantId
    /\ row.expiresAt > now

\* db.oAuthToken.findFirst(... orderBy createdAt desc): the ids it can return
findFirstToken(accountId, tenantId) ==
    LET cand == { i \in DOMAIN tokens :
                    TokenMatches(tokens[i], accountId, tenantId) }
    IN { i \in cand : \A j \in cand : tokens[j].createdAt <= tokens[i].createdAt }

\* getValidTokens refreshing every row that expires within the hour
getValidTokens_find_eagerRefresh(p) ==
    /\ rq[p].pc = "tokens"
    /\ LET found == findFirstToken(rq[p].account, rq[p].tenant)
       IN IF found = {}
          THEN Respond(p, [rq[p] EXCEPT !.tokenResult = "null"],
                       200, "error", CODE_INTERNAL)
          ELSE \E i \in found :
                 rq' = [rq EXCEPT
                      ![p].row = i,
                      ![p].access = decrypt(tokens[i].accessToken),
                      ![p].refreshToken =
                            IF tokens[i].expiresAt <= now + 60
                            THEN decrypt(tokens[i].refreshToken) ELSE 0,
                      ![p].tokenResult =
                            IF tokens[i].expiresAt <= now + 60
                            THEN None ELSE "tokens",
                      ![p].pc = IF tokens[i].expiresAt <= now + 60
                                THEN "refresh" ELSE "api"]
    /\ UNCHANGED << now, ticks, ivCount, grants, tokens, sessions,
                    reqCount, apiUse, refreshCalls >>
    /\ UNCHANGED authVars
    /\ UNCHANGED whVars
    /\ UNCHANGED sessVars
    /\ UNCHANGED boxVars
    /\ UNCHANGED errVars

\* getValidTokens, lines 86-110.  decrypt of the access token (line 103) is
\* outside the try: what it throws leaves getValidTokens as it is.  decrypt
\* of the refresh token (line 110) is inside the try: what it throws is
\* caught by the catch of lines 129-140.
getValidTokens_find(p) ==
    /\ rq[p].pc = "tokens"
    /\ LET found == findFirstToken(rq[p].account, rq[p].tenant)
       IN IF found = {}
          THEN Respond(p, [rq[p] EXCEPT !.tokenResult = "null"],
                       200, "error", CODE_INTERNAL)
          ELSE \E i \in found :
                 IF DecryptThrows(tokens[i].accessToken)
                 THEN Respond(p, [rq[p] EXCEPT !.row = i, !.crypto = TRUE,
                                               !.tokenResult = "CryptoError"],
                              200, "error", CODE_INTERNAL)
                 ELSE IF /\ tokens[i].expiresAt <= now + FIVE_MINUTES
                         /\ DecryptThrows(tokens[i].refreshToken)
                 THEN rq' = [rq EXCEPT ![p].row = i, ![p].crypto = TRUE,
                                       ![p].pc = "invalidate"]
                 ELSE
                 rq' = [rq EXCEPT
                      ![p].row = i,
                      ![p].access = decrypt(tokens[i].accessToken),
                      ![p].refreshToken =
                            IF tokens[i].expiresAt <= now + FIVE_MINUTES
                            THEN decrypt(tokens[i].refreshToken) ELSE 0,
                      ![p].tokenResult =
                            IF tokens[i].expiresAt <= now + FIVE_MINUTES
                            THEN None ELSE "tokens",
                      ![p].pc = IF tokens[i].expiresAt <= now + FIVE_MINUTES
                                THEN "refresh" ELSE "api"]
    /\ UNCHANGED << now, ticks, ivCount, grants, tokens, sessions,
                    reqCount, apiUse, refreshCalls >>
    /\ UNCHANGED authVars
    /\ UNCHANGED whVars
    /\ UNCHANGED sessVars
    /\ UNCHANGED boxVars
    /\ UNCHANGED errVars

\* getValidTokens, lines 111-112: refreshAccessToken(decrypt(refreshToken));
\* the authorization server grants a new token set or refuses
refreshAccessToken(p) ==
    /\ rq[p].pc = "refresh"
    /\ refreshCalls' = [refreshCalls EXCEPT ![rq[p].row] = @ + 1]
    /\ \/ /\ rq' = [rq EXCEPT ![p].pc = "update",
                             ![p].refreshes = @ + 1,
                             ![p].newTok = TokenSet(grants + 1, ExpiresIn)]
          /\ grants' = grants + 1
       \/ /\ rq' = [rq EXCEPT ![p].pc = "invalidate",
                             ![p].refreshes = @ + 1]
          /\ grants' = grants
    /\ UNCHANGED << now, ticks, ivCount, tokens, sessions, reqCount,
                    apiUse >>
    /\ UNCHANGED authVars
    /\ UNCHANGED whVars
    /\ UNCHANGED sessVars
    /\ UNCHANGED boxVars
    /\ UNCHANGED errVars

\* getValidTokens storing the refreshed tokens as a new row
getValidTokens_update_append(p) ==
    /\ rq[p].pc = "update"
    /\ tokens' = Append(tokens,
          TokenRow(rq[p].account, rq[p].newTok, rq[p].tenant,
                   ivCount + 1, ivCount + 2))
    /\ ivCount' = ivCount + 2
    /\ rq' = [rq EXCEPT ![p].pc = "api",
                        ![p].tokenResult = "tokens",
                        ![p].access = rq[p].newTok.access_token]
    /\ UNCHANGED << now, ticks, grants, sessions, reqCount, apiUse,
                    refreshCalls >>
    /\ UNCHANGED authVars
    /\ UNCHANGED whVars
    /\ UNCHANGED sessVars
    /\ UNCHANGED boxVars
    /\ UNCHANGED errVars

\* getValidTokens updating the ciphertexts but not expiresAt
getValidTokens_update_keepExpiry(p) ==
    /\ rq[p].pc = "update"
    /\ tokens' = [tokens EXCEPT ![rq[p].row] =
          [@ EXCEPT !.accessToken = encrypt(rq[p].newTok.access_token,
                                            ivCount + 1),
                    !.refreshToken = encrypt(rq[p].newTok.refresh_token,
                                             ivCount + 2)]]
    /\ ivCount' = ivCount + 2
    /\ rq' = [rq EXCEPT ![p].pc = "api",
                        ![p].tokenResult = "tokens",
                        ![p].access = rq[p].newTok.access_token]
    /\ UNCHANGED << now, ticks, grants, sessions, reqCount, apiUse,
                    refreshCalls >>
    /\ UNCHANGED authVars
    /\ UNCHANGED whVars
    /\ UNCHANGED sessVars
    /\ UNCHANGED boxVars
    /\ UNCHANGED errVars

\* getValidTokens, lines 114-128: the row is updated in place
getValidTokens_update(p) ==
    /\ rq[p].pc = "update"
    /\ tokens' = [tokens EXCEPT ![rq[p].row] =
          [@ EXCEPT !.accessToken = encrypt(rq[p].newTok.access_token,
                                            ivCount + 1),
                    !.refreshToken = encrypt(rq[p].newTok.refresh_token,
                                             ivCount + 2),
                    !.expiresAt = now + rq[p].newTok.expires_in]]
    /\ ivCount' = ivCount + 2
    /\ rq' = [rq EXCEPT ![p].pc = "api",
                        ![p].tokenResult = "tokens",
                        ![p].access = rq[p].newTok.access_token]
    /\ UNCHANGED << now, ticks, grants, sessions, reqCount, apiUse,
                    refreshCalls >>
    /\ UNCHANGED authVars
    /\ UNCHANGED whVars
    /\ UNCHANGED sessVars
    /\ UNCHANGED boxVars
    /\ UNCHANGED errVars

\* new Date(0): the epoch lies before the start of the clock
EpochDate == -1

\* getValidTokens, lines 129-140: expiresAt := new Date(0), TokenRefreshError;
\* XeroTenantClient.initialize rethrows and handleCallTool answers
getValidTokens_invalidate(p) ==
    /\ rq[p].pc = "invalidate"
    /\ tokens' = [tokens EXCEPT ![rq[p].row].expiresAt = EpochDate]
    /\ Respond(p, [rq[p] EXCEPT !.access = 0,
                                !.tokenResult = "TokenRefreshError"],
               200, "error", CODE_INTERNAL)
    /\ UNCHANGED << now, ticks, ivCount, grants, sessions, reqCount,
                    apiUse, refreshCalls >>
    /\ UNCHANGED authVars
    /\ UNCHANGED whVars
    /\ UNCHANGED sessVars
    /\ UNCHANGED boxVars
    /\ UNCHANGED errVars

\* the other copy of getValidTokens in the repository (part_004, lines
\* 844-849): the catch logs and returns null, the row is left as it was;
\* XeroTenantClient.initialize throws 'No valid tokens found for tenant'.
\* Which copy './xero-client' resolves to is not fixed by the sources.
getValidTokens_returnNull(p) ==
    /\ rq[p].pc = "invalidate"
    /\ Respond(p, [rq[p] EXCEPT !.access = 0, !.tokenResult = "null"],
               200, "error", CODE_INTERNAL)
    /\ UNCHANGED << now, ticks, ivCount, grants, tokens, sessions, reqCount,
                    apiUse, refreshCalls >>
    /\ UNCHANGED authVars
    /\ UNCHANGED whVars
    /\ UNCHANGED sessVars
    /\ UNCHANGED boxVars
    /\ UNCHANGED errVars

\* XeroTenantClient.initialize lines 169-170 and the accounting call of the
\* tool (client.getAccounts): the platform answers or fails
callAccountingApi(p) ==
    /\ rq[p].pc = "api"
    /\ apiUse' = [apiUse EXCEPT ![rq[p].sid] = @ \cup {rq[p].tenant}]
    /\ \/ Respond(p, [rq[p] EXCEPT !.api = TRUE], 200, "content", 0)
       \/ Respond(p, [rq[p] EXCEPT !.api = TRUE], 200, "error", CODE_INTERNAL)
    /\ UNCHANGED << now, ticks, ivCount, grants, tokens, sessions,
                    reqCount, refreshCalls >>
    /\ UNCHANGED authVars
    /\ UNCHANGED whVars
    /\ UNCHANGED sessVars
    /\ UNCHANGED boxVars
    /\ UNCHANGED errVars

McpJumps == {25}
GateJumps == {1, SESSION_TTL}

TickMcp ==
    /\ Advance(McpJumps, MaxMcpTicks)
    /\ UNCHANGED << ivCount, grants, tokens, sessions >>
    /\ UNCHANGED authVars
    /\ UNCHANGED mcpVars
    /\ UNCHANGED whVars
    /\ UNCHANGED sessVars
    /\ UNCHANGED boxVars
    /\ UNCHANGED errVars

\* ---------------------------------------------------------------------------
\* Webhook endpoint: POST /api/webhooks/xero
\* ---------------------------------------------------------------------------
\* payload.events items: an event, named by its
\* `${resourceId}_${eventType}_${eventDateUtc}`, or a JSON null
EventIds == {"e1", "e2"}
NullEvent == "null"

RECURSIVE SeqsUpTo(_, _)
SeqsUpTo(S, n) ==
    IF n = 0 THEN {<<>>}
    ELSE LET shorter == SeqsUpTo(S, n - 1)
         IN  shorter \cup {Append(q, x) : q \in shorter, x \in S}

\* request bodies: text that is not JSON, JSON without an events array, and
\* JSON with an events array
NotJson == [json |-> FALSE, hasEvents |-> FALSE, events |-> <<>>]
NoEventsArray == [json |-> TRUE, hasEvents |-> FALSE, events |-> <<>>]
Bodies ==
    {NotJson, NoEventsArray}
        \cup {[json |-> TRUE, hasEvents |-> TRUE, events |-> b] :
                b \in SeqsUpTo(EventIds \cup {NullEvent}, MaxBatch)}

\* createHmac('sha256', key).update(payload).digest(): 32 bytes
HMAC(key, payload) == [key |-> key, payload |-> payload, len |-> 32]

\* digest('base64'): the padded text of the bytes
Base64Encode(bytes) == [bytes |-> bytes, padded |-> TRUE]

\* Buffer.from(text, 'base64'): the bytes, with or without the padding
Base64Decode(text) == text.bytes

\* crypto.timingSafeEqual: throws when the lengths differ
timingSafeEqual(a, b) ==
    IF a.len # b.len THEN "throw" ELSE IF a = b THEN "equal" ELSE "differ"

\* the x-xero-signature header: absent, or a base64 text
NoHeader == [bytes |-> [key |-> None, payload |-> NotJson, len |-> 0],
             padded |-> FALSE]
SigningKeys == {"k1", "k2"}
HeadersFor(body) ==
    {NoHeader}
        \cup {Base64Encode(HMAC(k, body)) : k \in SigningKeys}
        \cup {[bytes |-> HMAC("k1", body), padded |-> FALSE]}
        \cup {Base64Encode([key |-> "k1", payload |-> body, len |-> 16])}

\* what the platform sends: event batches signed with its key
EventBodies ==
    {[json |-> TRUE, hasEvents |-> TRUE, events |-> b] :
        b \in SeqsUpTo(EventIds, MaxBatch)}
PlatformHeader(body) == Base64Encode(HMAC("k1", body))

\* verifyWebhookSignature
verifyWebhookSignature(payload, signature) ==
    IF webhookSecret = None THEN FALSE
    ELSE LET expectedSignature == Base64Encode(HMAC(webhookSecret, payload))
         IN  timingSafeEqual(Base64Decode(signature),
                             Base64Decode(expectedSignature)) = "equal"

\* isEventProcessed: the answer, and the ledger it leaves (an entry older than
\* EVENT_EXPIRY is deleted by the check)
isEventProcessed(eventId) ==
    /\ processedEvents[eventId] # NoId
    /\ ~ (now - processedEvents[eventId] > EVENT_EXPIRY)

LedgerAfterCheck(eventId) ==
    IF /\ processedEvents[eventId] # NoId
       /\ now - processedEvents[eventId] > EVENT_EXPIRY
    THEN [processedEvents EXCEPT ![eventId] = NoId]
    ELSE processedEvents

\* mutant of markEventProcessed: nothing is recorded
markEventProcessed_noRecord(ledger, eventId) == ledger

\* the entries of the Map under keys other than EventIds: none, or
\* MaxOtherKeys of them marked at the same time
NoOthers == [count |-> 0, at |-> NoId]

\* processedEvents.size
LedgerSize(ledger, others) ==
    Cardinality({k \in EventIds : ledger[k] # NoId}) + others.count

\* the cleanup pass: the entries older than EVENT_EXPIRY are deleted
CleanupPass(ledger) ==
    [k \in EventIds |->
        IF ledger[k] # NoId /\ now - ledger[k] > EVENT_EXPIRY
        THEN NoId ELSE ledger[k]]

CleanupOthers(others) ==
    IF others.count > 0 /\ now - others.at > EVENT_EXPIRY
    THEN NoOthers ELSE others

\* mutant of markEventProcessed: over the limit, every other entry is deleted
markEventProcessed_evictAll(ledger, eventId) ==
    LET set == [ledger EXCEPT ![eventId] = now]
    IN  IF LedgerSize(set, otherEvents) > LEDGER_LIMIT
        THEN [k \in EventIds |-> IF k = eventId THEN now ELSE NoId]
        ELSE set

\* markEventProcessed: set, then the cleanup pass over a large ledger
markEventProcessed(ledger, eventId) ==
    LET set == [ledger EXCEPT ![eventId] = now]
    IN  IF LedgerSize(set, otherEvents) > LEDGER_LIMIT
        THEN CleanupPass(set)
        ELSE set

\* what markEventProcessed leaves of the entries under the other keys
OthersAfterMark(ledger, eventId) ==
    IF LedgerSize([ledger EXCEPT ![eventId] = now], otherEvents) > LEDGER_LIMIT
    THEN CleanupOthers(otherEvents)
    ELSE otherEvents

\* statusCode of errorHandler.createError(type, code, message, options)
createError(options) ==
    IF "statusCode" \in DOMAIN options THEN options.statusCode ELSE 500

IdleWh == [pc |-> "idle", signature |-> NoHeader, body |-> NotJson,
           idx |-> 0, outcomes |-> <<>>,
           processedEventIds |-> <<>>, failedEventIds |-> <<>>,
           status |-> 0, processed |-> 0, failed |-> 0]

WhInFlight == {d \in Deliveries : wh[d].pc \in {"loop", "process"}}

\* the handler after the event at r.idx: the next event, or the 200 response
\* with the counts
NextEvent(r) ==
    IF r.idx < Len(r.body.events)
    THEN [r EXCEPT !.pc = "loop", !.idx = r.idx + 1]
    ELSE [r EXCEPT !.pc = "done", !.status = 200,
                   !.processed = Len(r.processedEventIds),
                   !.failed = Len(r.failedEventIds)]

Reject(r, status) == [r EXCEPT !.pc = "done", !.status = status]

\* mutant of POST_webhook: the signature is not verified
POST_webhook_unverified(d, signature, body) ==
    /\ wh[d].pc = "idle"
    /\ \A e \in Deliveries : e < d => wh[e].pc # "idle"
    /\ LET r == [IdleWh EXCEPT !.signature = signature, !.body = body]
       IN  wh' = [wh EXCEPT ![d] =
                IF signature = NoHeader THEN Reject(r, 401)
                ELSE IF ~ body.json THEN Reject(r, createError([severity |-> "MEDIUM"]))
                ELSE IF ~ body.hasEvents THEN Reject(r, createError([severity |-> "MEDIUM"]))
                ELSE NextEvent(r)]
    /\ UNCHANGED << now, ticks, ivCount, grants, tokens, sessions,
                    webhookSecret, processedEvents, otherEvents,
                    webhookEvents >>
    /\ UNCHANGED authVars
    /\ UNCHANGED mcpVars
    /\ UNCHANGED sessVars
    /\ UNCHANGED boxVars
    /\ UNCHANGED errVars

\* POST, up to the loop over payload.events
POST_webhook(d, signature, body) ==
    /\ wh[d].pc = "idle"
    /\ \A e \in Deliveries : e < d => wh[e].pc # "idle"
    /\ LET r == [IdleWh EXCEPT !.signature = signature, !.body = body]
       IN  wh' = [wh EXCEPT ![d] =
                IF signature = NoHeader THEN Reject(r, 401)
                ELSE IF ~ verifyWebhookSignature(body, signature)
                     THEN Reject(r, 401)
                ELSE IF ~ body.json THEN Reject(r, createError([severity |-> "MEDIUM"]))
                ELSE IF ~ body.hasEvents THEN Reject(r, createError([severity |-> "MEDIUM"]))
                ELSE NextEvent(r)]
    /\ UNCHANGED << now, ticks, ivCount, grants, tokens, sessions,
                    webhookSecret, processedEvents, otherEvents,
                    webhookEvents >>
    /\ UNCHANGED authVars
    /\ UNCHANGED mcpVars
    /\ UNCHANGED sessVars
    /\ UNCHANGED boxVars
    /\ UNCHANGED errVars

\* one delivery after the other
POST_webhookSeq(d, signature, body) ==
    /\ WhInFlight = {}
    /\ POST_webhook(d, signature, body)

\* the loop body up to the await of processWebhookEvent: a null item throws
\* in the try and again in the catch (event.eventId), which ends the request
\* with the system error; a duplicate is logged and skipped
POST_webhook_check(d) ==
    /\ wh[d].pc = "loop"
    /\ LET r == wh[d]
           event == r.body.events[r.idx]
       IN  IF event = NullEvent
           THEN /\ wh' = [wh EXCEPT ![d] =
                        Reject(r, createError([severity |-> "HIGH"]))]
                /\ UNCHANGED processedEvents
           ELSE /\ processedEvents' = LedgerAfterCheck(event)
                /\ wh' = [wh EXCEPT ![d] =
                        IF isEventProcessed(event)
                        THEN NextEvent([r EXCEPT !.outcomes =
                                Append(@, [at |-> now, outcome |-> "skipped"])])
                        ELSE [r EXCEPT !.pc = "process"]]
    /\ UNCHANGED << now, ticks, ivCount, grants, tokens, sessions,
                    webhookSecret, otherEvents, webhookEvents >>
    /\ UNCHANGED authVars
    /\ UNCHANGED mcpVars
    /\ UNCHANGED sessVars
    /\ UNCHANGED boxVars
    /\ UNCHANGED errVars

\* processWebhookEvent returned: the row is written and the handler of the
\* event type has run; the event is marked and counted as processed
processWebhookEvent(d) ==
    /\ wh[d].pc = "process"
    /\ LET r == wh[d]
           event == r.body.events[r.idx]
       IN  /\ webhookEvents' = Append(webhookEvents,
                [eventId |-> event, createdAt |-> now, requestId |-> d])
           /\ processedEvents' = markEventProcessed(processedEvents, event)
           /\ otherEvents' = OthersAfterMark(processedEvents, event)
           /\ wh' = [wh EXCEPT ![d] = NextEvent([r EXCEPT
                    !.processedEventIds = Append(@, event),
                    !.outcomes = Append(@, [at |-> now,
                                            outcome |-> "processed"])])]
    /\ UNCHANGED << now, ticks, ivCount, grants, tokens, sessions,
                    webhookSecret >>
    /\ UNCHANGED authVars
    /\ UNCHANGED mcpVars
    /\ UNCHANGED sessVars
    /\ UNCHANGED boxVars
    /\ UNCHANGED errVars

\* mutant of processWebhookEvent_throws: the failed event is marked all the same
processWebhookEvent_throws_marked(d) ==
    /\ wh[d].pc = "process"
    /\ LET r == wh[d]
           event == r.body.events[r.idx]
       IN  /\ processedEvents' = markEventProcessed(processedEvents, event)
           /\ otherEvents' = OthersAfterMark(processedEvents, event)
           /\ wh' = [wh EXCEPT ![d] = NextEvent([r EXCEPT
                    !.failedEventIds = Append(@, "unknown"),
                    !.outcomes = Append(@, [at |-> now,
                                            outcome |-> "failed"])])]
    /\ UNCHANGED << now, ticks, ivCount, grants, tokens, sessions,
                    webhookSecret, webhookEvents >>
    /\ UNCHANGED authVars
    /\ UNCHANGED mcpVars
    /\ UNCHANGED sessVars
    /\ UNCHANGED boxVars
    /\ UNCHANGED errVars

\* processWebhookEvent threw (db.webhookEvent.create failed): the event is
\* counted as failed and the loop goes on
processWebhookEvent_throws(d) ==
    /\ wh[d].pc = "process"
    /\ LET r == wh[d]
       IN  wh' = [wh EXCEPT ![d] = NextEvent([r EXCEPT
                    !.failedEventIds = Append(@, "unknown"),
                    !.outcomes = Append(@, [at |-> now,
                                            outcome |-> "failed"])])]
    /\ UNCHANGED << now, ticks, ivCount, grants, tokens, sessions,
                    webhookSecret, processedEvents, otherEvents,
                    webhookEvents >>
    /\ UNCHANGED authVars
    /\ UNCHANGED mcpVars
    /\ UNCHANGED sessVars
    /\ UNCHANGED boxVars
    /\ UNCHANGED errVars

\* deliveries of MaxOtherKeys events with keys outside EventIds, each handled
\* and marked at the present time: the Map grows by that many entries, and
\* the markings that find it over LEDGER_LIMIT run the cleanup pass
markOtherEvents ==
    /\ WhInFlight = {}
    /\ otherEvents.count = 0
    /\ otherEvents' = [count |-> MaxOtherKeys, at |-> now]
    /\ processedEvents' =
            IF LedgerSize(processedEvents, otherEvents') > LEDGER_LIMIT
            THEN CleanupPass(processedEvents)
            ELSE processedEvents
    /\ UNCHANGED << now, ticks, ivCount, grants, tokens, sessions,
                    webhookSecret, webhookEvents, wh >>
    /\ UNCHANGED authVars
    /\ UNCHANGED mcpVars
    /\ UNCHANGED sessVars
    /\ UNCHANGED boxVars
    /\ UNCHANGED errVars

WebhookJumps == {1, EVENT_EXPIRY}

TickWebhook ==
    /\ Advance(WebhookJumps, MaxWebhookTicks)
    /\ UNCHANGED << ivCount, grants, tokens, sessions >>
    /\ UNCHANGED authVars
    /\ UNCHANGED mcpVars
    /\ UNCHANGED whVars
    /\ UNCHANGED sessVars
    /\ UNCHANGED boxVars
    /\ UNCHANGED errVars

\* ---------------------------------------------------------------------------
\* Initial state and the OAuth specification
\* ---------------------------------------------------------------------------
InitStores ==
    /\ now = 0
    /\ ticks = 0
    /\ ivCount = 0
    /\ grants = 0
    /\ oauthStates = [s \in States \cup {ForgedState} |-> NoRow]
    /\ tokens = <<>>
    /\ sessions = [i \in SessionIds |-> NoRow]
    /\ connections = [t \in Tenants |-> None]
    /\ pkceStore = [s \in States |-> NoId]
    /\ issued = [s \in States |-> NoRow]
    /\ cb = [p \in CbProcs |-> IdleCb]
    /\ cbLog = <<>>
    /\ exchanges = [s \in States \cup {ForgedState} |-> 0]
    /\ rq = [p \in RqProcs |-> IdleRq]
    /\ reqCount = 0
    /\ apiUse = [i \in SessionIds |-> {}]
    /\ refreshCalls = [i \in TokenIds |-> 0]
    /\ processedEvents = [k \in EventIds |-> NoId]
    /\ otherEvents = NoOthers
    /\ webhookEvents = <<>>
    /\ wh = [d \in Deliveries |-> IdleWh]
    /\ sessionCount = 0
    /\ revocations = <<>>
    /\ box = <<>>
    /\ xeroErrors = <<>>

\* a deployment with XERO_WEBHOOK_KEY configured
Init ==
    /\ InitStores
    /\ webhookSecret = "k1"
    /\ encryptionEnv = "k32"

\* a deployment with or without XERO_WEBHOOK_KEY
InitWebhook ==
    /\ InitStores
    /\ webhookSecret \in {"k1", None}
    /\ encryptionEnv = "k32"

NextAuth ==
    \/ \E a \in LoginAccounts \cup {None, "nobody"} : AuthStart(a)
    \/ \E p \in CbProcs, k \in {"ok", "error", "missing"},
          s \in States \cup {ForgedState} : CallbackBegin(p, k, s)
    \/ \E p \in CbProcs : validateOAuthState_find(p)
    \/ \E p \in CbProcs : validateOAuthState_delete(p)
    \/ \E p \in CbProcs : CallbackGetVerifier(p)
    \/ \E p \in CbProcs : CallbackDeleteVerifier(p)
    \/ \E p \in CbProcs : exchangeCodeForTokens(p)
    \/ \E p \in CbProcs : CallbackStoreTokens(p)
    \/ \E p \in CbProcs : CallbackStoreTenants(p)
    \/ \E p \in CbProcs : CallbackCreateSession(p)
    \/ TickAuth

SpecAuth == Init /\ [][NextAuth]_vars

\* The same handlers with the callbacks arriving one after the other
CallbackBeginSeq(p, kind, state) ==
    /\ InFlight = {}
    /\ CallbackBegin(p, kind, state)

NextAuthSeq ==
    \/ \E a \in LoginAccounts \cup {None, "nobody"} : AuthStart(a)
    \/ \E p \in CbProcs, k \in {"ok", "error", "missing"},
          s \in States \cup {ForgedState} : CallbackBeginSeq(p, k, s)
    \/ \E p \in CbProcs : validateOAuthState_find(p)
    \/ \E p \in CbProcs : validateOAuthState_delete(p)
    \/ \E p \in CbProcs : CallbackGetVerifier(p)
    \/ \E p \in CbProcs : CallbackDeleteVerifier(p)
    \/ \E p \in CbProcs : exchangeCodeForTokens(p)
    \/ \E p \in CbProcs : CallbackStoreTokens(p)
    \/ \E p \in CbProcs : CallbackStoreTenants(p)
    \/ \E p \in CbProcs : CallbackCreateSession(p)
    \/ TickAuth

SpecAuthSeq == Init /\ [][NextAuthSeq]_vars

\* ---------------------------------------------------------------------------
\* Properties of the OAuth callback
\* ---------------------------------------------------------------------------
\* callbacks, finished or in flight, that got past validateOAuthState for s
PassedLog(s) == { i \in DOMAIN cbLog : cbLog[i].state = s /\ cbLog[i].passed }
PassedNow(s) == { p \in CbProcs : cb[p].state = s /\ cb[p].passed }
PassedCount(s) == Cardinality(PassedLog(s)) + Cardinality(PassedNow(s))

C2_AtMostOnePasses ==
    \A s \in States : PassedCount(s) <= 1 /\ exchanges[s] <= 1

\* two callbacks read the same unexpired record; one passed, the other did not
C2_Witness ==
    \E i, j \in DOMAIN cbLog :
        /\ i # j
        /\ cbLog[i].state \in States
        /\ cbLog[j].state = cbLog[i].state
        /\ cbLog[i].passed /\ exchanges[cbLog[i].state] = 1
        /\ cbLog[j].found /\ ~cbLog[j].passed
        /\ cbLog[j].readAt < issued[cbLog[j].state].expiresAt

\* C3: a callback that presented a state another callback consumed, and did
\* not itself pass validation, is answered invalid_state.
C3_LoserGetsInvalidState ==
    \A i \in DOMAIN cbLog :
        (/\ cbLog[i].state \in States
         /\ ~cbLog[i].passed
         /\ PassedCount(cbLog[i].state) >= 1)
            => cbLog[i].result = "invalid_state"

\* ---------------------------------------------------------------------------
\* The protocol endpoint with sessions and token rows
\* ---------------------------------------------------------------------------
NextMcp ==
    \/ \E x \in SessionInputs : createSession(x[1], x[2])
    \/ \E x \in TokenInputs : storeTokensCall(x[1], x[2])
    \/ \E p \in RqProcs, sid \in 1 .. MaxSessions, r \in ToolCalls :
          POST_mcp(p, sid, r.method, r.tool, r.tenantArg)
    \/ \E p \in RqProcs : getXeroClient(p)
    \/ \E p \in RqProcs : getValidTokens_find(p)
    \/ \E p \in RqProcs : refreshAccessToken(p)
    \/ \E p \in RqProcs : getValidTokens_update(p)
    \/ \E p \in RqProcs : getValidTokens_invalidate(p)
    \/ \E p \in RqProcs : getValidTokens_returnNull(p)
    \/ \E p \in RqProcs : callAccountingApi(p)
    \/ TickMcp

SpecMcp == Init /\ [][NextMcp]_vars

\* ---------------------------------------------------------------------------
\* The session gate of the protocol endpoint: every kind of request, sessions
\* that are missing, never issued, valid or expired, and no token rows
\* ---------------------------------------------------------------------------
TickGate ==
    /\ Advance(GateJumps, MaxGateTicks)
    /\ UNCHANGED << ivCount, grants, tokens, sessions >>
    /\ UNCHANGED authVars
    /\ UNCHANGED mcpVars
    /\ UNCHANGED whVars
    /\ UNCHANGED sessVars
    /\ UNCHANGED boxVars
    /\ UNCHANGED errVars

NextGate ==
    \/ \E x \in SessionInputs : createSession(x[1], x[2])
    \/ \E p \in RqProcs, sid \in (1 .. MaxSessions + 1) \cup {NoId},
          r \in Requests : POST_mcp(p, sid, r.method, r.tool, r.tenantArg)
    \/ \E p \in RqProcs : getXeroClient(p)
    \/ \E p \in RqProcs : getValidTokens_find(p)
    \/ TickGate

SpecGate == Init /\ [][NextGate]_vars

\* ---------------------------------------------------------------------------
\* Properties of the protocol endpoint
\* ---------------------------------------------------------------------------
\* the requests received: those being handled and the last one answered by
\* each handler
Received == { p \in RqProcs : rq[p].pc # "idle" }

MissingSession(r) == r.sid = NoId

\* the session id named no session, or an expired one, when POST validated it
InvalidSession(r) ==
    /\ r.sid # NoId
    /\ \/ sessions[r.sid] = NoRow
       \/ sessions[r.sid].expiresAt < r.at

ExpiredSession(r) ==
    /\ r.sid # NoId
    /\ sessions[r.sid] # NoRow
    /\ sessions[r.sid].expiresAt < r.at

\* the request was turned away before any tool code ran
RejectedAtGate(r) ==
    /\ r.pc = "done"
    /\ r.kind = "error"
    /\ r.account = None /\ r.tenant = None
    /\ r.row = 0 /\ r.access = 0 /\ ~r.api

\* C4: a tools/call without a session id and a tools/call with an invalid or
\* expired session id are both rejected before any tool handler, token lookup
\* or accounting call, and with different error codes.
C4_DistinctGateErrors ==
    /\ \A p \in Received :
          (rq[p].method = "tools/call"
              /\ (MissingSession(rq[p]) \/ InvalidSession(rq[p])))
            => RejectedAtGate(rq[p])
    /\ \A p, q \in Received :
          (/\ rq[p].method = "tools/call" /\ rq[q].method = "tools/call"
           /\ MissingSession(rq[p]) /\ InvalidSession(rq[q]))
            => rq[p].code # rq[q].code

\* a call without session id and a call with an expired one, both answered
C4_Witness ==
    \E p, q \in Received :
        /\ rq[p].method = "tools/call" /\ rq[q].method = "tools/call"
        /\ rq[p].tool \in KnownTools /\ rq[q].tool \in KnownTools
        /\ MissingSession(rq[p]) /\ ExpiredSession(rq[q])
        /\ rq[p].pc = "done" /\ rq[q].pc = "done"

\* C5: initialize and tools/list sent without a session id are answered with
\* a result, not with an error.
C5_StatelessMethods ==
    \A p \in Received :
        (/\ rq[p].pc = "done"
         /\ rq[p].method \in {"initialize", "tools/list"}
         /\ MissingSession(rq[p]))
            => rq[p].kind = "result"

\* the session of a request, bound to a tenant other than the one requested
TenantConflict(r) ==
    /\ r.sid # NoId
    /\ sessions[r.sid] # NoRow
    /\ sessions[r.sid].tenantId # None
    /\ r.tenantArg # None
    /\ r.tenantArg # sessions[r.sid].tenantId

\* C6: a tools/call naming a tenant other than the one its session is bound
\* to reads no token row, calls no accounting API and ends in an error; the
\* API is only ever called for the bound tenant; and no step changes the
\* tenantId of a session that has one.
C6_BoundTenantEnforced ==
    /\ [](\A p \in Received :
            TenantConflict(rq[p]) =>
               /\ rq[p].row = 0 /\ rq[p].access = 0 /\ ~rq[p].api
               /\ rq[p].pc \in {"client", "done"}
               /\ rq[p].pc = "done" => rq[p].kind = "error")
    /\ [](\A i \in SessionIds :
            (sessions[i] # NoRow /\ sessions[i].tenantId # None)
               => apiUse[i] \subseteq {sessions[i].tenantId})
    /\ [][\A i \in SessionIds :
            (sessions[i] # NoRow /\ sessions[i].tenantId # None)
               => (sessions'[i] = NoRow
                     \/ sessions'[i].tenantId = sessions[i].tenantId)]_vars

\* a conflicting call was refused although the account holds a usable token
\* row for the tenant it asked for
C6_Witness ==
    \E p \in Received :
        /\ TenantConflict(rq[p])
        /\ rq[p].pc = "done" /\ rq[p].kind = "error"
        /\ \E i \in DOMAIN tokens :
              /\ tokens[i].accountId = sessions[rq[p].sid].accountId
              /\ tokens[i].tenantId = rq[p].tenantArg
              /\ tokens[i].expiresAt > now

\* C7: on a session created without a tenant, the accounting API is only
\* ever called for one tenant, the first one used.
C7_FirstTenantBinds ==
    \A i \in SessionIds :
        (sessions[i] # NoRow /\ sessions[i].tenantId = None)
            => Cardinality(apiUse[i]) <= 1

\* C8: the token row a tools/call has read belongs to the account of its
\* session and to the effective tenant of the call (the tenantId argument,
\* else the session's tenant).
C8_TokenRowOfSession ==
    \A p \in Received :
        rq[p].row # 0 =>
            /\ sessions[rq[p].sid] # NoRow
            /\ rq[p].account = sessions[rq[p].sid].accountId
            /\ rq[p].tenant \in Tenants
            /\ rq[p].tenant = IF rq[p].tenantArg # None
                               THEN rq[p].tenantArg
                               ELSE sessions[rq[p].sid].tenantId
            /\ tokens[rq[p].row].accountId = sessions[rq[p].sid].accountId
            /\ tokens[rq[p].row].tenantId = rq[p].tenant

\* a call was served with its own account's row while another account holds
\* a usable row for the same tenant
C8_Witness ==
    \E p \in Received :
        /\ rq[p].pc = "done" /\ rq[p].api /\ rq[p].kind = "content"
        /\ rq[p].row # 0
        /\ \E j \in DOMAIN tokens :
              /\ tokens[j].accountId # rq[p].account
              /\ tokens[j].tenantId = rq[p].tenant
              /\ tokens[j].expiresAt > now
\* ---------------------------------------------------------------------------
\* The webhook specifications
\* ---------------------------------------------------------------------------
NextWebhook ==
    \/ \E d \in GateDeliveries, body \in Bodies :
         \E signature \in HeadersFor(body) : POST_webhook(d, signature, body)
    \/ \E d \in GateDeliveries : POST_webhook_check(d)
    \/ \E d \in GateDeliveries : processWebhookEvent(d)
    \/ \E d \in GateDeliveries : processWebhookEvent_throws(d)
    \/ TickWebhook

SpecWebhook == InitWebhook /\ [][NextWebhook]_vars

NextWebhookSeq ==
    \/ \E d \in 1..MaxDeliveries, body \in EventBodies :
         POST_webhookSeq(d, PlatformHeader(body), body)
    \/ \E d \in Deliveries : POST_webhook_check(d)
    \/ \E d \in Deliveries : processWebhookEvent(d)
    \/ \E d \in Deliveries : processWebhookEvent_throws(d)
    \/ TickWebhook

SpecWebhookSeq == InitWebhook /\ [][NextWebhookSeq]_vars

\* ---------------------------------------------------------------------------
\* Properties of the webhook endpoint
\* ---------------------------------------------------------------------------
\* the header of delivery r is missing or is not the text
\* base64(HMAC-SHA256(secret, rawBody))
HeaderNotEqual(r) ==
    \/ r.signature = NoHeader
    \/ webhookSecret = None
    \/ r.signature # Base64Encode(HMAC(webhookSecret, r.body))

\* the header of delivery r is missing or does not decode to the bytes
\* HMAC-SHA256(secret, rawBody)
HeaderNotDecoding(r) ==
    \/ r.signature = NoHeader
    \/ webhookSecret = None
    \/ Base64Decode(r.signature) # HMAC(webhookSecret, r.body)

\* delivery d was answered 401 and has handled no event and written no row
Answered401(d) ==
    /\ wh[d].pc = "done"
    /\ wh[d].status = 401
    /\ wh[d].outcomes = <<>>
    /\ \A i \in DOMAIN webhookEvents : webhookEvents[i].requestId # d

Occurrences ==
    {o \in Deliveries \X (1 .. MaxBatch + 1) : o[2] <= Len(wh[o[1]].outcomes)}

OccEvent(o) == wh[o[1]].body.events[o[2]]
OccOutcome(o) == wh[o[1]].outcomes[o[2]]
OccBefore(o1, o2) == o1[1] < o2[1] \/ (o1[1] = o2[1] /\ o1[2] < o2[2])

CountOutcome(d, outcome) ==
    Cardinality({i \in DOMAIN wh[d].outcomes :
                    wh[d].outcomes[i].outcome = outcome})

\* C10: when the same event is ingested again by the process, one delivery
\* after the other, within EVENT_EXPIRY of the time it was marked processed,
\* the later occurrence is skipped: it writes no row, and the response of
\* its delivery counts it neither as processed nor as failed; the rows of one
\* event are more than EVENT_EXPIRY apart.
C10_DuplicateSkipped ==
    /\ \A o1, o2 \in Occurrences :
            (/\ OccBefore(o1, o2)
             /\ OccEvent(o1) = OccEvent(o2)
             /\ OccOutcome(o1).outcome = "processed"
             /\ OccOutcome(o2).at - OccOutcome(o1).at <= EVENT_EXPIRY)
            => OccOutcome(o2).outcome = "skipped"
    /\ \A i, j \in DOMAIN webhookEvents :
            (i < j /\ webhookEvents[i].eventId = webhookEvents[j].eventId)
            => webhookEvents[j].createdAt - webhookEvents[i].createdAt
                    > EVENT_EXPIRY
    /\ \A d \in Deliveries :
            (wh[d].pc = "done" /\ wh[d].status = 200)
            => /\ wh[d].processed = CountOutcome(d, "processed")
               /\ wh[d].failed = CountOutcome(d, "failed")
               /\ Len(wh[d].body.events) = CountOutcome(d, "processed")
                    + CountOutcome(d, "failed") + CountOutcome(d, "skipped")
               /\ CountOutcome(d, "processed")
                    = Cardinality({i \in DOMAIN webhookEvents :
                                        webhookEvents[i].requestId = d})

\* an event processed by one delivery is delivered again exactly EVENT_EXPIRY
\* later and skipped; that delivery answers 200 with nothing processed or
\* failed, and the event has one row
C10_Witness ==
    \E d1, d2 \in Deliveries :
        /\ d1 < d2
        /\ wh[d1].pc = "done" /\ wh[d2].pc = "done"
        /\ wh[d1].body.events = <<"e1">>
        /\ wh[d2].body.events = <<"e1">>
        /\ wh[d1].outcomes # <<>> /\ wh[d2].outcomes # <<>>
        /\ wh[d1].outcomes[1].outcome = "processed"
        /\ wh[d2].outcomes[1].outcome = "skipped"
        /\ wh[d2].outcomes[1].at - wh[d1].outcomes[1].at = EVENT_EXPIRY
        /\ wh[d2].status = 200
        /\ wh[d2].processed = 0 /\ wh[d2].failed = 0
        /\ Cardinality({i \in DOMAIN webhookEvents :
                            webhookEvents[i].eventId = "e1"}) = 1

\* ---------------------------------------------------------------------------
\* Concurrent deliveries to one process
\* ---------------------------------------------------------------------------
\* deliveries of at most one event
SingleEventBodies == {b \in EventBodies : Len(b.events) <= 1}

NextWebhookConc ==
    \/ \E d \in 1..MaxDeliveries, body \in SingleEventBodies :
         POST_webhook(d, PlatformHeader(body), body)
    \/ \E d \in Deliveries : POST_webhook_check(d)
    \/ \E d \in Deliveries : processWebhookEvent(d)
    \/ \E d \in Deliveries : processWebhookEvent_throws(d)
    \/ TickWebhook

SpecWebhookConc == Init /\ [][NextWebhookConc]_vars

\* C11: when deliveries carrying the same event are handled concurrently by
\* one process, the event's side effects (its webhook event row and the run
\* of its handler) happen at most once within EVENT_EXPIRY.
C11_ConcurrentAtMostOnce ==
    \A i, j \in DOMAIN webhookEvents :
        (/\ i # j
         /\ webhookEvents[i].eventId = webhookEvents[j].eventId
         /\ webhookEvents[i].createdAt <= webhookEvents[j].createdAt)
        => webhookEvents[j].createdAt - webhookEvents[i].createdAt
                > EVENT_EXPIRY

\* ---------------------------------------------------------------------------
\* Process restarts
\* ---------------------------------------------------------------------------
\* the process is replaced by a fresh instance while no handler is running:
\* module state (the processedEvents Map, globalThis.pkceStore) starts empty,
\* the database keeps its rows
Restart ==
    /\ WhInFlight = {}
    /\ InFlight = {}
    /\ Busy = {}
    /\ processedEvents' = [k \in EventIds |-> NoId]
    /\ otherEvents' = NoOthers
    /\ pkceStore' = [s \in States |-> NoId]
    /\ UNCHANGED << now, ticks, ivCount, grants, tokens, sessions,
                    oauthStates, connections, issued, cb, cbLog, exchanges,
                    webhookSecret, webhookEvents, wh >>
    /\ UNCHANGED mcpVars
    /\ UNCHANGED sessVars
    /\ UNCHANGED boxVars
    /\ UNCHANGED errVars

NextWebhookRestart ==
    \/ \E d \in 1..MaxDeliveries, body \in SingleEventBodies :
         POST_webhookSeq(d, PlatformHeader(body), body)
    \/ \E d \in Deliveries : POST_webhook_check(d)
    \/ \E d \in Deliveries : processWebhookEvent(d)
    \/ \E d \in Deliveries : processWebhookEvent_throws(d)
    \/ TickWebhook
    \/ Restart

SpecWebhookRestart == Init /\ [][NextWebhookRestart]_vars

\* C12: an event counted as processed by one delivery is not processed again
\* by a later delivery within EVENT_EXPIRY, whichever process instance
\* handles the later delivery (another instance, or the same one restarted).
C12_LedgerSurvivesInstances ==
    \A o1, o2 \in Occurrences :
        (/\ o1[1] < o2[1]
         /\ OccEvent(o1) = OccEvent(o2)
         /\ OccOutcome(o1).outcome = "processed"
         /\ OccOutcome(o2).outcome = "processed")
        => OccOutcome(o2).at - OccOutcome(o1).at > EVENT_EXPIRY

\* ---------------------------------------------------------------------------
\* The token vault: tool calls of one account and tenant over the life of
\* its token rows
\* ---------------------------------------------------------------------------
VaultJumps == {10, 25}

TickVault ==
    /\ Advance(VaultJumps, MaxVaultTicks)
    /\ UNCHANGED << ivCount, grants, tokens, sessions >>
    /\ UNCHANGED authVars
    /\ UNCHANGED mcpVars
    /\ UNCHANGED whVars
    /\ UNCHANGED sessVars
    /\ UNCHANGED boxVars
    /\ UNCHANGED errVars

NextVault ==
    \/ createSession("a1", "t1")
    \/ storeTokensCall("a1", "t1")
    \/ \E p \in RqProcs, sid \in 1 .. MaxSessions :
          POST_mcp(p, sid, "tools/call", "list-accounts", None)
    \/ \E p \in RqProcs : getXeroClient(p)
    \/ \E p \in RqProcs : getValidTokens_find(p)
    \/ \E p \in RqProcs : refreshAccessToken(p)
    \/ \E p \in RqProcs : getValidTokens_update(p)
    \/ \E p \in RqProcs : getValidTokens_invalidate(p)
    \/ \E p \in RqProcs : getValidTokens_returnNull(p)
    \/ \E p \in RqProcs : callAccountingApi(p)
    \/ TickVault

SpecVault == Init /\ [][NextVault]_vars

\* ---------------------------------------------------------------------------
\* Properties of the token vault
\* ---------------------------------------------------------------------------
\* the most recently created rows of a pair (one row, unless two were stored
\* at the same instant)
RowsOf(accountId, tenantId) ==
    {i \in DOMAIN tokens : /\ tokens[i].accountId = accountId
                           /\ tokens[i].tenantId = tenantId}

MostRecent(accountId, tenantId) ==
    {i \in RowsOf(accountId, tenantId) :
        \A j \in RowsOf(accountId, tenantId) :
            tokens[j].createdAt <= tokens[i].createdAt}

\* handler p is in getValidTokens, about to get the answer of findFirst
InGetValidTokens(p) == rq[p].pc = "tokens"

\* C13: when the most recent token row of (accountId, tenantId) expires more
\* than FIVE_MINUTES after now, getValidTokens returns the access token that
\* is stored in that row, sends no refresh exchange and leaves the token rows
\* unchanged.
C13_FreshRowReturnedAsStored ==
    [][\A p \in RqProcs :
        (/\ InGetValidTokens(p)
         /\ rq'[p] # rq[p]
         /\ MostRecent(rq[p].account, rq[p].tenant) # {}
         /\ \A i \in MostRecent(rq[p].account, rq[p].tenant) :
                tokens[i].expiresAt > now + FIVE_MINUTES)
        => /\ rq'[p].pc = "api"
           /\ rq'[p].tokenResult = "tokens"
           /\ rq'[p].row \in MostRecent(rq[p].account, rq[p].tenant)
           /\ rq'[p].access = tokens[rq'[p].row].accessToken.data
           /\ rq'[p].refreshes = 0
           /\ tokens' = tokens
           /\ grants' = grants
           /\ refreshCalls' = refreshCalls]_vars

\* a call made at the instant its row was stored was served with the stored
\* access token and no refresh exchange was ever sent for the row
C13_Witness ==
    \E p \in RqProcs :
        /\ rq[p].pc = "done" /\ rq[p].kind = "content"
        /\ rq[p].tokenResult = "tokens"
        /\ rq[p].refreshes = 0
        /\ rq[p].row \in DOMAIN tokens
        /\ rq[p].at = tokens[rq[p].row].createdAt
        /\ rq[p].access = tokens[rq[p].row].accessToken.data
        /\ refreshCalls[rq[p].row] = 0

\* the row read by handler p expires within FIVE_MINUTES of now
NearExpiry(i) == tokens[i].expiresAt <= now + FIVE_MINUTES

\* C14: a getValidTokens call that finds the row within FIVE_MINUTES of its
\* expiry sends one refresh exchange; when the authorization server accepts
\* it, the call writes the new tokens and the new expiresAt into that same
\* row (no row is added or removed, no other row changes) and returns the
\* new access token.
C14_RefreshUpdatesInPlace ==
    /\ [](\A p \in RqProcs : rq[p].refreshes <= 1)
    /\ [][\A p \in RqProcs :
            (InGetValidTokens(p) /\ rq'[p] # rq[p] /\ rq'[p].row # 0
                /\ NearExpiry(rq'[p].row))
            => rq'[p].pc = "refresh" /\ rq'[p].refreshes = 0]_vars
    /\ [][\A p \in RqProcs :
            (rq[p].pc = "refresh" /\ rq'[p] # rq[p])
            => /\ rq'[p].refreshes = 1
               /\ refreshCalls'[rq[p].row] = refreshCalls[rq[p].row] + 1
               /\ rq'[p].pc \in {"update", "invalidate"}
               /\ tokens' = tokens]_vars
    /\ [][\A p \in RqProcs :
            (rq[p].pc = "update" /\ rq'[p] # rq[p])
            => LET i == rq[p].row
                   new == rq[p].newTok
               IN /\ rq'[p].pc = "api"
                  /\ rq'[p].tokenResult = "tokens"
                  /\ rq'[p].access = new.access_token
                  /\ rq'[p].access # tokens[i].accessToken.data
                  /\ rq'[p].refreshes = 1
                  /\ Len(tokens') = Len(tokens)
                  /\ tokens'[i].accessToken.data = new.access_token
                  /\ tokens'[i].refreshToken.data = new.refresh_token
                  /\ tokens'[i].expiresAt = now + new.expires_in
                  /\ tokens'[i].accountId = tokens[i].accountId
                  /\ tokens'[i].tenantId = tokens[i].tenantId
                  /\ tokens'[i].createdAt = tokens[i].createdAt
                  /\ \A j \in DOMAIN tokens : j # i => tokens'[j] = tokens[j]
                  /\ refreshCalls' = refreshCalls]_vars

\* a call that found the only row exactly FIVE_MINUTES before its expiry was
\* served with the refreshed access token, which the row now holds, after
\* one refresh exchange
C14_Witness ==
    \E p \in RqProcs :
        /\ rq[p].pc = "done" /\ rq[p].kind = "content"
        /\ rq[p].tokenResult = "tokens"
        /\ rq[p].refreshes = 1
        /\ Len(tokens) = 1
        /\ rq[p].row = 1
        /\ refreshCalls[1] = 1
        /\ tokens[1].createdAt = 0
        /\ tokens[1].expiresAt = (ExpiresIn - FIVE_MINUTES) + ExpiresIn
        /\ tokens[1].accessToken.data = rq[p].access

\* getValidTokens returns tokens to handler p in this step
ReturnsTokens(p) ==
    rq[p].tokenResult # "tokens" /\ rq'[p].tokenResult = "tokens"

\* C15: at the moment getValidTokens returns an access token, the expiresAt
\* of the row the token is read from or written to lies after now, whatever
\* stores, refreshes, failed refreshes and clock advances came before.
C15_NeverReturnsExpired ==
    [][\A p \in RqProcs :
        ReturnsTokens(p)
        => /\ rq'[p].row \in DOMAIN tokens'
           /\ tokens'[rq'[p].row].expiresAt > now'
           /\ rq'[p].access = tokens'[rq'[p].row].accessToken.data]_vars

\* a call was served with a refreshed token after the expiry the row had when
\* it was stored had passed
C15_Witness ==
    \E p \in RqProcs :
        /\ rq[p].pc = "done" /\ rq[p].kind = "content"
        /\ rq[p].tokenResult = "tokens"
        /\ rq[p].refreshes = 1
        /\ rq[p].row \in DOMAIN tokens
        /\ now > tokens[rq[p].row].createdAt + ExpiresIn
        /\ tokens[rq[p].row].expiresAt > now

\* C16: when the most recent token row of (accountId, tenantId) has already
\* expired, getValidTokens goes on to a refresh exchange with that row's
\* refresh token.
C16_ExpiredRowRefreshed ==
    [][\A p \in RqProcs :
        (/\ InGetValidTokens(p)
         /\ rq'[p] # rq[p]
         /\ MostRecent(rq[p].account, rq[p].tenant) # {}
         /\ \A i \in MostRecent(rq[p].account, rq[p].tenant) :
                tokens[i].expiresAt <= now)
        => /\ rq'[p].pc = "refresh"
           /\ rq'[p].row \in MostRecent(rq[p].account, rq[p].tenant)]_vars

\* the handlers that have sent a refresh exchange
Refreshers == {p \in RqProcs : rq[p].refreshes > 0}

\* C17: of the getValidTokens calls that observe the same near-expiry row,
\* only one sends a refresh exchange to the authorization server: no two
\* calls are served from exchanges of the same refresh token.
C17_RefreshSerialized ==
    \A p, q \in Refreshers :
        (/\ p # q
         /\ rq[p].row = rq[q].row
         /\ rq[p].tokenResult = "tokens"
         /\ rq[q].tokenResult = "tokens")
        => rq[p].refreshToken # rq[q].refreshToken

\* the refresh exchange of handler p was refused and getValidTokens ends
RefreshFailureEnds(p) == rq[p].pc = "invalidate" /\ rq'[p] # rq[p]

\* C18: when the refresh exchange fails, getValidTokens sets the row's
\* expiresAt into the past, keeps the row and its token ciphertexts, and
\* fails with TokenRefreshError; it returns neither a token nor null.
C18_FailureInvalidatesAndThrows ==
    [][\A p \in RqProcs :
        RefreshFailureEnds(p)
        => LET i == rq[p].row
           IN /\ Len(tokens') = Len(tokens)
              /\ tokens'[i].expiresAt < now'
              /\ tokens'[i].accessToken = tokens[i].accessToken
              /\ tokens'[i].refreshToken = tokens[i].refreshToken
              /\ \A j \in DOMAIN tokens : j # i => tokens'[j] = tokens[j]
              /\ rq'[p].tokenResult = "TokenRefreshError"
              /\ rq'[p].access = 0]_vars

\* the refresh exchange of the call answered by handler p failed
RefreshFailed(r) ==
    /\ r.pc = "done"
    /\ r.refreshes > 0
    /\ r.tokenResult \in {"TokenRefreshError", "null"}

\* C19: a tools/call whose token refresh failed is answered with the error
\* code of authentication failures, not with the internal-error code.
C19_RefreshFailureIsAuthError ==
    \A p \in RqProcs :
        RefreshFailed(rq[p])
            => rq[p].kind = "error" /\ rq[p].code = CODE_AUTHENTICATION

\* C20: a request whose session row exists with expiresAt <= now when POST
\* validates it (the instant now = expiresAt included) is turned away at the
\* session check.
C20_ExpiredAtBoundaryRejected ==
    \A p \in Received :
        (/\ rq[p].sid \in SessionIds
         /\ sessions[rq[p].sid] # NoRow
         /\ sessions[rq[p].sid].expiresAt <= rq[p].at)
        => /\ RejectedAtGate(rq[p])
           /\ rq[p].code = CODE_INVALID_SESSION

\* ---------------------------------------------------------------------------
\* Properties of the session manager
\* ---------------------------------------------------------------------------
\* the session id of request r was never issued
NeverIssued(r) ==
    /\ r.sid # NoId
    /\ r.sid > sessionCount

\* what the caller sees of a response
Visible(r) == <<r.status, r.kind, r.code, r.message>>

\* C21: validateMCPSession returns null for an id that names no row and for
\* an id whose row has expired, and POST answers a request with a
\* never-issued id and a request with an expired id with the same status,
\* error code and message, before any tool code runs.
C21_ExpiredLikeUnknown ==
    /\ \A i \in SessionIds :
          (sessions[i] = NoRow \/ sessions[i].expiresAt < now)
              => validateMCPSession(i) = NoRow
    /\ \A p, q \in Received :
          (NeverIssued(rq[p]) /\ ExpiredSession(rq[q]))
              => /\ RejectedAtGate(rq[p]) /\ RejectedAtGate(rq[q])
                 /\ Visible(rq[p]) = Visible(rq[q])
                 /\ rq[p].status = 401
                 /\ rq[p].message = "Invalid or expired session"

\* the same request was answered once for an id never issued and once for an
\* id that was issued and has expired
C21_Witness ==
    \E p, q \in Received :
        /\ NeverIssued(rq[p]) /\ ExpiredSession(rq[q])
        /\ rq[p].pc = "done" /\ rq[q].pc = "done"
        /\ rq[p].method = "tools/call" /\ rq[q].method = "tools/call"
        /\ rq[p].tool = rq[q].tool /\ rq[p].tool \in KnownTools
        /\ rq[p].tenantArg = rq[q].tenantArg

\* ---------------------------------------------------------------------------
\* Properties of state validation in the OAuth callback
\* ---------------------------------------------------------------------------
\* the latest entry of the callback log after a step
LastLogged == cbLog'[Len(cbLog')]

\* C23: a callback whose state matches no stored OAuthState record ends with
\* the invalid-state error and changes nothing: it sends no token exchange,
\* writes no token row, creates no session, and leaves every OAuthState record
\* (those of other logins included) as it was.
C23_UnknownStateRejected ==
    /\ [](\A i \in DOMAIN cbLog :
            (cbLog[i].state # NoId /\ ~cbLog[i].found)
                => /\ cbLog[i].result = "invalid_state"
                   /\ ~cbLog[i].passed
                   /\ cbLog[i].sessionId = NoId)
    /\ [](exchanges[ForgedState] = 0)
    /\ [][\A p \in CbProcs :
            (/\ cb[p].pc = "find"
             /\ oauthStates[cb[p].state] = NoRow
             /\ cb'[p] # cb[p])
            => /\ Len(cbLog') = Len(cbLog) + 1
               /\ LastLogged.state = cb[p].state
               /\ LastLogged.result = "invalid_state"
               /\ cb'[p] = IdleCb
               /\ UNCHANGED << oauthStates, tokens, sessions, connections,
                               pkceStore, exchanges, grants >>]_vars

\* a callback with a state never issued was answered invalid_state while the
\* record of another login is still there and unexpired
C23_Witness ==
    \E i \in DOMAIN cbLog :
        /\ cbLog[i].state = ForgedState
        /\ ~cbLog[i].found
        /\ cbLog[i].result = "invalid_state"
        /\ \E s \in States : StateRowValid(oauthStates[s], now)

\* C24: an OAuthState record is valid for STATE_TTL minutes only: a callback
\* that reads the record of its state at or after expiresAt is answered
\* invalid_state and sends no token exchange, also when the state was never
\* used; only a callback that read the record before expiresAt goes on.
C24_StateExpires ==
    /\ \A s \in States :
          (oauthStates[s] # NoRow /\ issued[s] # NoRow)
              => /\ oauthStates[s].expiresAt = issued[s].expiresAt
                 /\ issued[s].expiresAt <= now + STATE_TTL
    /\ \A i \in DOMAIN cbLog :
          (/\ cbLog[i].state \in States
           /\ issued[cbLog[i].state] # NoRow
           /\ cbLog[i].found
           /\ cbLog[i].readAt >= issued[cbLog[i].state].expiresAt)
              => cbLog[i].result = "invalid_state" /\ ~cbLog[i].passed
    /\ \A p \in CbProcs :
          cb[p].pc \notin {"idle", "find"}
              => cb[p].readAt < issued[cb[p].state].expiresAt
    /\ \A s \in States :
          (exchanges[s] > 0)
              => \/ \E i \in DOMAIN cbLog :
                       /\ cbLog[i].state = s /\ cbLog[i].passed
                       /\ cbLog[i].readAt < issued[s].expiresAt
                 \/ \E p \in CbProcs :
                       /\ cb[p].state = s /\ cb[p].passed
                       /\ cb[p].readAt < issued[s].expiresAt

\* a state nobody used is presented at the very instant expiresAt and is
\* answered invalid_state, with no token exchange sent for it
C24_Witness ==
    \E i \in DOMAIN cbLog :
        /\ cbLog[i].state \in States
        /\ cbLog[i].found
        /\ cbLog[i].readAt = issued[cbLog[i].state].expiresAt
        /\ cbLog[i].result = "invalid_state"
        /\ exchanges[cbLog[i].state] = 0
        /\ PassedCount(cbLog[i].state) = 0

\* C25: the verifier auth start persisted under a state is the one the
\* callback finds: the first callback with an issued, unexpired state gets past
\* state validation, obtains that verifier and sends the token exchange; it
\* does not end at the verifier lookup.
C25_VerifierFound ==
    \A i \in DOMAIN cbLog :
        cbLog[i].passed
            => /\ cbLog[i].result # "missing_verifier"
               /\ exchanges[cbLog[i].state] = 1

\* ---------------------------------------------------------------------------
\* Properties of the responses to tools/call
\* ---------------------------------------------------------------------------
\* the answered tools/call requests whose tool ran to its end without throwing
ToolSucceeded(p) ==
    /\ rq[p].pc = "done"
    /\ rq[p].method = "tools/call"
    /\ rq[p].tool \in KnownTools
    /\ rq[p].api
    /\ rq[p].kind # "error"

\* C26: every response to a tools/call that reached a tool and succeeded is a
\* JSON-RPC 2.0 response object: an envelope with jsonrpc "2.0", the id of the
\* request and a result member.
C26_SuccessIsJsonRpcResult ==
    \A p \in RqProcs : ToolSucceeded(p) => rq[p].kind = "result"

\* ---------------------------------------------------------------------------
\* Properties of payload validation and the event loop of the webhook endpoint
\* ---------------------------------------------------------------------------
\* delivery d got past signature verification
SignatureAccepted(d) ==
    /\ wh[d].pc # "idle"
    /\ ~HeaderNotDecoding(wh[d])

\* C28: a correctly signed delivery whose body is not valid JSON, or is JSON
\* without an events array, is answered HTTP 400 with the invalid-payload
\* error before any event is handled: no handler has run, no row is written
\* and no ledger entry recorded for it.
C28_MalformedPayloadIs400 ==
    \A d \in Deliveries :
        (SignatureAccepted(d) /\ (~wh[d].body.json \/ ~wh[d].body.hasEvents))
            => /\ wh[d].pc = "done"
               /\ wh[d].status = 400
               /\ wh[d].outcomes = <<>>
               /\ \A i \in DOMAIN webhookEvents : webhookEvents[i].requestId # d

\* C29: a failure while handling one event never aborts the batch or fails the
\* request: a signed delivery with an events array is answered 200 with the
\* counts, every event of the batch is handled, each is counted in exactly one
\* of processed, failed and skipped, and the three counts add up to the size
\* of the batch.
C29_FailuresIsolated ==
    \A d \in Deliveries :
        (/\ SignatureAccepted(d)
         /\ wh[d].body.json /\ wh[d].body.hasEvents
         /\ wh[d].pc = "done")
            => /\ wh[d].status = 200
               /\ Len(wh[d].outcomes) = Len(wh[d].body.events)
               /\ wh[d].processed = CountOutcome(d, "processed")
               /\ wh[d].failed = CountOutcome(d, "failed")
               /\ wh[d].processed + wh[d].failed + CountOutcome(d, "skipped")
                      = Len(wh[d].body.events)

\* ---------------------------------------------------------------------------
\* Revocation and the sweep of expired sessions
\* ---------------------------------------------------------------------------
MaxRevocations == 2

\* revokeMCPSession(sessionId): db.mCPSession.delete({ where: { sessionId } }).
\* delete() rejects when no row matches, and the function has no handler, so
\* the rejection reaches the caller.
revokeMCPSession(sessionId) ==
    /\ Len(revocations) < MaxRevocations
    /\ IF sessions[sessionId] # NoRow
       THEN /\ sessions' = [sessions EXCEPT ![sessionId] = NoRow]
            /\ revocations' = Append(revocations,
                   [sessionId |-> sessionId, existed |-> TRUE,
                    outcome |-> "ok"])
       ELSE /\ sessions' = sessions
            /\ revocations' = Append(revocations,
                   [sessionId |-> sessionId, existed |-> FALSE,
                    outcome |-> "throws"])
    /\ UNCHANGED << now, ticks, ivCount, grants, tokens, sessionCount >>
    /\ UNCHANGED authVars
    /\ UNCHANGED mcpVars
    /\ UNCHANGED whVars
    /\ UNCHANGED boxVars
    /\ UNCHANGED errVars

\* GET /api/maintenance/cleanup-sessions: deleteMany of the sessions whose
\* expiresAt is earlier than now; the updateMany that follows clears the
\* oauthState column of db.account rows, which no handler writes or reads,
\* and leaves the db.oAuthState table alone
cleanupSessions ==
    /\ sessions' = [i \in SessionIds |->
                      IF sessions[i] # NoRow /\ sessions[i].expiresAt < now
                      THEN NoRow ELSE sessions[i]]
    /\ UNCHANGED << now, ticks, ivCount, grants, tokens >>
    /\ UNCHANGED authVars
    /\ UNCHANGED mcpVars
    /\ UNCHANGED whVars
    /\ UNCHANGED sessVars
    /\ UNCHANGED boxVars
    /\ UNCHANGED errVars

NextSession ==
    \/ \E x \in SessionInputs : createSession(x[1], x[2])
    \/ \E sid \in 1 .. (MaxSessions + 1) : revokeMCPSession(sid)
    \/ cleanupSessions
    \/ \E p \in RqProcs, sid \in 1 .. (MaxSessions + 1) :
          POST_mcp(p, sid, "tools/list", None, None)
    \/ TickGate

SpecSession == Init /\ [][NextSession]_vars

\* C22: Revoke is idempotent: every call of revokeMCPSession completes without
\* an error, also for a session that does not exist (never created, already
\* revoked or already swept), and a call for such a session leaves the store
\* as it was.
C22_RevokeIdempotent ==
    \A k \in DOMAIN revocations :
        ~revocations[k].existed => revocations[k].outcome = "ok"

\* ---------------------------------------------------------------------------
\* The protocol endpoint with tool calls that fail: arguments that do not
\* parse, sessions revoked while the call runs, tenant conflicts, missing
\* token rows, refused refreshes and failures of the accounting API
\* ---------------------------------------------------------------------------
ToolInputs ==
    ToolCalls
    \cup { [method |-> "tools/call", tool |-> "list-accounts",
            tenantArg |-> BadArg],
           [method |-> "tools/call", tool |-> NoParams, tenantArg |-> None],
           [method |-> NotJsonBody, tool |-> None, tenantArg |-> None] }

\* the callback's storeTokens for account a1 and tenant t1, once
storeFirstTokens ==
    /\ tokens = <<>>
    /\ storeTokensCall("a1", "t1")

\* one revocation in the runs explored
revokeOnce(sessionId) ==
    /\ revocations = <<>>
    /\ revokeMCPSession(sessionId)

NextTool ==
    \/ \E x \in SessionInputs : createSession(x[1], x[2])
    \/ storeFirstTokens
    \/ \E sid \in 1 .. MaxSessions : revokeOnce(sid)
    \/ \E p \in RqProcs, sid \in 1 .. MaxSessions, r \in ToolInputs :
          POST_mcp(p, sid, r.method, r.tool, r.tenantArg)
    \/ \E p \in RqProcs : getXeroClient(p)
    \/ \E p \in RqProcs : getValidTokens_find(p)
    \/ \E p \in RqProcs : refreshAccessToken(p)
    \/ \E p \in RqProcs : getValidTokens_update(p)
    \/ \E p \in RqProcs : getValidTokens_invalidate(p)
    \/ \E p \in RqProcs : getValidTokens_returnNull(p)
    \/ \E p \in RqProcs : callAccountingApi(p)
    \/ TickMcp

SpecTool == Init /\ [][NextTool]_vars

\* the answered tools/call requests that got to handleCallTool and did not
\* end with the content of a tool
ToolFailed(p) ==
    /\ rq[p].pc = "done"
    /\ rq[p].method = "tools/call"
    /\ rq[p].status # 401
    /\ rq[p].kind # "content"

\* C27: every exception raised while a tool executes (arguments that do not
\* parse, an invalid session, a tenant mismatch, missing tokens, a failure of
\* the accounting API) is caught and answered with a JSON-RPC error object that
\* carries the id of the request; a handler past the gate is either still
\* running or has answered with a tool's content or with such an error.
C27_ToolErrorsEnveloped ==
    /\ \A p \in RqProcs :
          ToolFailed(p)
              => /\ rq[p].kind = "error"
                 /\ rq[p].id = "request.id"
                 /\ rq[p].status = 200
                 /\ rq[p].code \in {CODE_INTERNAL, CODE_METHOD_NOT_FOUND}
    /\ \A p \in RqProcs :
          rq[p].pc \in {"client", "tokens", "refresh", "update",
                        "invalidate", "api", "done", "idle"}

\* one call failed on its arguments and another on the accounting API; both
\* were answered with an error envelope
C27_Witness ==
    \E p, q \in RqProcs :
        /\ ToolFailed(p) /\ rq[p].tenantArg = BadArg
        /\ rq[p].kind = "error" /\ rq[p].id = "request.id"
        /\ ToolFailed(q) /\ rq[q].api
        /\ rq[q].kind = "error" /\ rq[q].id = "request.id"

\* ---------------------------------------------------------------------------
\* The encryption utilities: encrypt and decrypt of xero-client and of the
\* refresh-tokens maintenance route
\* ---------------------------------------------------------------------------
MaxTextLen == 2
MaxBoxCalls == 2

\* UTF-16 code units of a text: a letter, and a surrogate with no partner
LoneSurrogate == "\\uD800"
ReplacementChar == "\\uFFFD"
CodeUnits == {"a", LoneSurrogate}
Texts == SeqsUpTo(CodeUnits, MaxTextLen)

\* values of process.env.ENCRYPTION_KEY: unset, a key of 32 characters as the
\* README asks for, and the key of 33 characters of the test setup
EnvKeys == {None, "k32", "k33"}

\* the modules that define encrypt and decrypt
CryptoModules == {"xero-client", "refresh-tokens"}

\* ENCRYPTION_KEY of a module outside production: the environment's value, or
\* else randomBytes(32).toString('hex') in xero-client and the literal
\* 'default-key-change-in-production' in the maintenance route
EncryptionKey(module, env) ==
    IF env # None THEN env
    ELSE IF module = "xero-client" THEN "randomHex"
    ELSE "default-key"

\* Buffer.from(ENCRYPTION_KEY).length
KeyBytes(key) ==
    CASE key = "k32" -> 32
      [] key = "k33" -> 33
      [] key = "randomHex" -> 64
      [] key = "default-key" -> 32

\* the bytes cipher.update(text, 'utf8') works on: a surrogate without its
\* partner is written as U+FFFD
Utf8Encode(text) ==
    [i \in DOMAIN text |->
        IF text[i] = LoneSurrogate THEN ReplacementChar ELSE text[i]]

Utf8Decode(bytes) == bytes

NoCipher == [iv |-> 0, key |-> None, bytes |-> <<>>]

\* encrypt(text) with the IV drawn: createCipheriv('aes-256-cbc', key, iv)
\* throws unless the key has 32 bytes; the result is ivHex ':' ciphertextHex
encryptUnder(key, text, iv) ==
    IF KeyBytes(key) # 32
    THEN [threw |-> TRUE, out |-> NoCipher]
    ELSE [threw |-> FALSE,
          out |-> [iv |-> iv, key |-> key, bytes |-> Utf8Encode(text)]]

\* decrypt(encryptedText): split(':'), createDecipheriv with the key and the
\* IV of the text; a key of another length or another key ends in a throw
decryptUnder(key, encryptedText) ==
    IF KeyBytes(key) # 32 \/ key # encryptedText.key
    THEN [state |-> "threw", text |-> <<>>]
    ELSE [state |-> "value", text |-> Utf8Decode(encryptedText.bytes)]

\* a module encrypts a text
encryptCall(module, text) ==
    /\ Len(box) < MaxBoxCalls
    /\ ivCount' = ivCount + 1
    /\ LET r == encryptUnder(EncryptionKey(module, encryptionEnv), text,
                             ivCount + 1)
       IN box' = Append(box, [module |-> module, text |-> text,
                              threw |-> r.threw, out |-> r.out,
                              back |-> [state |-> "none", text |-> <<>>]])
    /\ UNCHANGED << now, ticks, grants, tokens, sessions, encryptionEnv >>
    /\ UNCHANGED authVars
    /\ UNCHANGED mcpVars
    /\ UNCHANGED whVars
    /\ UNCHANGED sessVars
    /\ UNCHANGED errVars

\* the module that encrypted a text decrypts what it produced
decryptCall(i) ==
    /\ i \in DOMAIN box
    /\ ~box[i].threw
    /\ box[i].back.state = "none"
    /\ box' = [box EXCEPT ![i].back =
                  decryptUnder(EncryptionKey(box[i].module, encryptionEnv),
                               box[i].out)]
    /\ UNCHANGED << now, ticks, ivCount, grants, tokens, sessions,
                    encryptionEnv >>
    /\ UNCHANGED authVars
    /\ UNCHANGED mcpVars
    /\ UNCHANGED whVars
    /\ UNCHANGED sessVars
    /\ UNCHANGED errVars

\* a deployment outside production with any of the keys
InitCrypto ==
    /\ InitStores
    /\ webhookSecret = "k1"
    /\ encryptionEnv \in EnvKeys

NextCrypto ==
    \/ \E m \in CryptoModules, x \in Texts : encryptCall(m, x)
    \/ \E i \in 1 .. MaxBoxCalls : decryptCall(i)

SpecCrypto == InitCrypto /\ [][NextCrypto]_vars

\* C30: decrypt(encrypt(x)) = x for every string x, and two encryptions of one
\* x give different ciphertexts: every encrypt call returns, the decrypt of
\* what it returned is the text that was encrypted, and no two calls with the
\* same text return the same ciphertext.
C30_RoundTrip ==
    /\ \A i \in DOMAIN box : ~box[i].threw
    /\ \A i \in DOMAIN box :
          box[i].back.state # "none"
              => box[i].back.state = "value" /\ box[i].back.text = box[i].text
    /\ \A i, j \in DOMAIN box :
          (i # j /\ box[i].text = box[j].text) => box[i].out # box[j].out

\* ---------------------------------------------------------------------------
\* The error handler: classification of accounting-API errors
\* ---------------------------------------------------------------------------
MaxErrorCalls == 3

\* errors thrown by the accounting client: with a response of some HTTP
\* status, or without one (status NoId)
UpstreamStatuses == {400, 401, 403, 404, 429, 500}
XeroErrors ==
    { [hasResponse |-> TRUE, status |-> s] : s \in UpstreamStatuses }
    \cup { [hasResponse |-> FALSE, status |-> NoId] }

\* errorHandler.createError(type, code, message, options): the defaults of
\* lines 76-85 for the options left out
AppError(type, code, options) ==
    [ type |-> type,
      code |-> code,
      severity |-> IF "severity" \in DOMAIN options
                   THEN options.severity ELSE "MEDIUM",
      retryable |-> IF "retryable" \in DOMAIN options
                    THEN options.retryable ELSE FALSE,
      statusCode |-> IF "statusCode" \in DOMAIN options
                     THEN options.statusCode ELSE 500 ]

\* handleXeroError with the rate-limit error marked not retryable
handleXeroError_rateLimitFinal(error) ==
    IF error.hasResponse /\ error.status = 429
    THEN AppError("RATE_LIMIT", "XERO_RATE_LIMIT",
                  [severity |-> "MEDIUM", retryable |-> FALSE,
                   statusCode |-> 429])
    ELSE AppError("NETWORK", "XERO_CONNECTION_ERROR",
                  [severity |-> "HIGH", retryable |-> TRUE,
                   statusCode |-> 503])

\* ErrorHandler.handleXeroError(error, context)
handleXeroError(error) ==
    IF error.hasResponse
    THEN CASE error.status = 401 ->
                AppError("AUTHENTICATION", "XERO_UNAUTHORIZED",
                         [severity |-> "HIGH", retryable |-> FALSE,
                          statusCode |-> 401])
           [] error.status = 403 ->
                AppError("AUTHORIZATION", "XERO_FORBIDDEN",
                         [severity |-> "HIGH", retryable |-> FALSE,
                          statusCode |-> 403])
           [] error.status = 429 ->
                AppError("RATE_LIMIT", "XERO_RATE_LIMIT",
                         [severity |-> "MEDIUM", retryable |-> TRUE,
                          statusCode |-> 429])
           [] error.status = 400 ->
                AppError("VALIDATION", "XERO_BAD_REQUEST",
                         [severity |-> "MEDIUM", retryable |-> FALSE,
                          statusCode |-> 400])
           [] OTHER ->
                AppError("EXTERNAL_API", "XERO_API_ERROR",
                         [severity |-> "MEDIUM",
                          retryable |-> error.status >= 500,
                          statusCode |-> error.status])
    ELSE AppError("NETWORK", "XERO_CONNECTION_ERROR",
                  [severity |-> "HIGH", retryable |-> TRUE,
                   statusCode |-> 503])

\* a caller classifies an error of the accounting client
handleXeroErrorCall(error) ==
    /\ Len(xeroErrors) < MaxErrorCalls
    /\ xeroErrors' = Append(xeroErrors,
                            [error |-> error, app |-> handleXeroError(error)])
    /\ UNCHANGED << now, ticks, ivCount, grants, tokens, sessions >>
    /\ UNCHANGED authVars
    /\ UNCHANGED mcpVars
    /\ UNCHANGED whVars
    /\ UNCHANGED sessVars
    /\ UNCHANGED boxVars

NextErrors == \E error \in XeroErrors : handleXeroErrorCall(error)

SpecErrors == Init /\ [][NextErrors]_vars

\* the AppError of call i has this type, status and retryable flag
Classified(i, type, statusCode, retryable) ==
    /\ xeroErrors[i].app.type = type
    /\ xeroErrors[i].app.statusCode = statusCode
    /\ xeroErrors[i].app.retryable = retryable

\* C31: accounting-API errors are classified by HTTP status: 401 gives an
\* authentication error with status 401 that is not retryable, 403 an
\* authorization error with status 403, 429 a rate-limit error with status 429
\* that is retryable, 400 a validation error with status 400 that is not
\* retryable, and an error without a response a network error with status 503
\* that is retryable.
C31_XeroErrorTaxonomy ==
    \A i \in DOMAIN xeroErrors :
        LET e == xeroErrors[i].error
        IN /\ (e.hasResponse /\ e.status = 401)
                => Classified(i, "AUTHENTICATION", 401, FALSE)
           /\ (e.hasResponse /\ e.status = 403)
                => /\ xeroErrors[i].app.type = "AUTHORIZATION"
                   /\ xeroErrors[i].app.statusCode = 403
           /\ (e.hasResponse /\ e.status = 429)
                => Classified(i, "RATE_LIMIT", 429, TRUE)
           /\ (e.hasResponse /\ e.status = 400)
                => Classified(i, "VALIDATION", 400, FALSE)
           /\ ~e.hasResponse => Classified(i, "NETWORK", 503, TRUE)

\* a rate-limit answer, a 401 and an error without a response were classified
C31_Witness ==
    /\ \E i \in DOMAIN xeroErrors :
          xeroErrors[i].error.hasResponse /\ xeroErrors[i].error.status = 429
    /\ \E i \in DOMAIN xeroErrors :
          xeroErrors[i].error.hasResponse /\ xeroErrors[i].error.status = 401
    /\ \E i \in DOMAIN xeroErrors : ~xeroErrors[i].error.hasResponse

\* ---------------------------------------------------------------------------
\* The token vault after a second login: two token rows of one pair, stored
\* a few minutes apart
\* ---------------------------------------------------------------------------
MaxReloginTicks == 2
ReloginJumps == {2, 25}

TickRelogin ==
    /\ Advance(ReloginJumps, MaxReloginTicks)
    /\ UNCHANGED << ivCount, grants, tokens, sessions >>
    /\ UNCHANGED authVars
    /\ UNCHANGED mcpVars
    /\ UNCHANGED whVars
    /\ UNCHANGED sessVars
    /\ UNCHANGED boxVars
    /\ UNCHANGED errVars

NextRelogin ==
    \/ createSession("a1", "t1")
    \/ storeTokensCall("a1", "t1")
    \/ \E p \in RqProcs, sid \in 1 .. MaxSessions :
          POST_mcp(p, sid, "tools/call", "list-accounts", None)
    \/ \E p \in RqProcs : getXeroClient(p)
    \/ \E p \in RqProcs : getValidTokens_find(p)
    \/ \E p \in RqProcs : refreshAccessToken(p)
    \/ \E p \in RqProcs : getValidTokens_update(p)
    \/ \E p \in RqProcs : getValidTokens_invalidate(p)
    \/ \E p \in RqProcs : getValidTokens_returnNull(p)
    \/ \E p \in RqProcs : callAccountingApi(p)
    \/ TickRelogin

SpecRelogin == Init /\ [][NextRelogin]_vars

\* every most recent row of the pair was soft-invalidated by a failed refresh
AuthoritativeInvalidated(accountId, tenantId) ==
    /\ MostRecent(accountId, tenantId) # {}
    /\ \A i \in MostRecent(accountId, tenantId) :
          tokens[i].expiresAt = EpochDate

\* C32: after a refresh failure has soft-invalidated the authoritative token
\* row of (accountId, tenantId), a later getValidTokens call for the pair
\* selects no row and returns no access token; it does not fall back to an
\* older, still unexpired row of the pair.
C32_NoFallbackAfterInvalidation ==
    [][\A p \in RqProcs :
        (/\ InGetValidTokens(p)
         /\ rq'[p] # rq[p]
         /\ AuthoritativeInvalidated(rq[p].account, rq[p].tenant))
        => /\ rq'[p].pc = "done"
           /\ rq'[p].tokenResult = "null"
           /\ rq'[p].row = 0]_vars

\* C33: when two getValidTokens calls raced on one near-expiry row and the
\* refresh exchange of one of them succeeded, the end of the failing call
\* leaves the row as the successful call wrote it: the new tokens with their
\* expiresAt are not overwritten by a soft-invalidation.
C33_SuccessNotOverwritten ==
    [][\A p \in RqProcs :
        RefreshFailureEnds(p)
        => \A q \in RqProcs \ {p} :
              (/\ rq[q].row = rq[p].row
               /\ rq[q].refreshToken = rq[p].refreshToken
               /\ rq[q].refreshes = 1
               /\ rq[q].tokenResult = "tokens"
               /\ tokens[rq[p].row].accessToken.data = rq[q].access)
              => tokens'[rq[p].row] = tokens[rq[p].row]]_vars

\* C34: token rows of different (accountId, tenantId) pairs are independent:
\* no two rows written by one OAuth callback hold the same refresh token, so
\* the exchange of one row's refresh token never spends that of another row.
C34_RowsShareNoRefreshToken ==
    \A i, j \in DOMAIN tokens :
        (i # j /\ <<tokens[i].accountId, tokens[i].tenantId>>
                    # <<tokens[j].accountId, tokens[j].tenantId>>)
            => decrypt(tokens[i].refreshToken) # decrypt(tokens[j].refreshToken)

\* C35: a PKCE verifier does not survive its single use: once a callback
\* that got past state validation for s has ended, no verifier is left under
\* s in the store auth start wrote it to.
C35_VerifierRemoved ==
    \A i \in DOMAIN cbLog :
        cbLog[i].passed => pkceStore[cbLog[i].state] = NoId

\* ---------------------------------------------------------------------------
\* Failed events and their redelivery
\* ---------------------------------------------------------------------------
\* the outcomes a delivery has for an event key, as <<delivery, index>>
OutcomesOf(eventId, outcome) ==
    { x \in Deliveries \X (1..MaxBatch) :
        /\ x[2] <= Len(wh[x[1]].outcomes)
        /\ wh[x[1]].body.events[x[2]] = eventId
        /\ wh[x[1]].outcomes[x[2]].outcome = outcome }

OutcomeAt(x) == wh[x[1]].outcomes[x[2]].at

FailedCount(d) ==
    Cardinality({k \in DOMAIN wh[d].outcomes :
                    wh[d].outcomes[k].outcome = "failed"})

\* C36: when the handling of an event fails, no ledger entry is recorded for
\* its key and the event is counted as failed in the response; a redelivery
\* of the event is then skipped only because a handling of it succeeded less
\* than EVENT_EXPIRY before, never because of the failed one.
C36_FailedEventRedelivered ==
    /\ [][\A d \in Deliveries :
            FailedCount(d)' > FailedCount(d)
                => /\ processedEvents' = processedEvents
                   /\ Len(wh'[d].failedEventIds)
                        = Len(wh[d].failedEventIds) + 1]_vars
    /\ [](\A d \in Deliveries :
            wh[d].pc = "done" /\ wh[d].status = 200
                => wh[d].failed = FailedCount(d))
    /\ [](\A e \in EventIds :
            OutcomesOf(e, "failed") # {}
                => \A s \in OutcomesOf(e, "skipped") :
                      \E x \in OutcomesOf(e, "processed") :
                          /\ OutcomeAt(x) <= OutcomeAt(s)
                          /\ OutcomeAt(s) - OutcomeAt(x) <= EVENT_EXPIRY)

\* an event failed in one delivery and was handled again by a later one
\* within the retention window
C36_Witness ==
    \E x \in OutcomesOf("e1", "failed") :
        \E y \in OutcomesOf("e1", "processed") :
            /\ x[1] < y[1]
            /\ wh[y[1]].pc = "done"
            /\ OutcomeAt(y) > OutcomeAt(x)
            /\ OutcomeAt(y) - OutcomeAt(x) <= EVENT_EXPIRY
            /\ wh[x[1]].failed = 1
            /\ OutcomesOf("e1", "skipped") = {}

\* ---------------------------------------------------------------------------
\* The ledger when it grows past LEDGER_LIMIT
\* ---------------------------------------------------------------------------
NextLedger ==
    \/ \E d \in 1..MaxDeliveries, body \in EventBodies :
         POST_webhookSeq(d, PlatformHeader(body), body)
    \/ \E d \in Deliveries : POST_webhook_check(d)
    \/ \E d \in Deliveries : processWebhookEvent(d)
    \/ \E d \in Deliveries : processWebhookEvent_throws(d)
    \/ markOtherEvents
    \/ TickWebhook

SpecLedger == Init /\ [][NextLedger]_vars

\* the entry of a key is within the retention window
WithinWindow(at) == at # NoId /\ now - at <= EVENT_EXPIRY

\* C37: eviction from the ledger is by age only: no step (the duplicate
\* check, the recording of an event, the cleanup pass of a ledger of more
\* than LEDGER_LIMIT entries) removes an entry marked at most EVENT_EXPIRY
\* ago, whatever the size of the ledger.
C37_EvictionByAgeOnly ==
    [][/\ \A k \in EventIds :
            WithinWindow(processedEvents[k]) => processedEvents'[k] # NoId
       /\ (otherEvents.count > 0 /\ WithinWindow(otherEvents.at))
            => otherEvents' = otherEvents]_vars

\* the cleanup pass ran on a ledger of more than LEDGER_LIMIT entries while
\* e2 was recorded: it removed the entry of e1, older than EVENT_EXPIRY, and
\* kept the other entries, which were within the window
C37_Witness ==
    /\ Cardinality(OutcomesOf("e1", "processed")) = 1
    /\ OutcomesOf("e1", "skipped") = {}
    /\ OutcomesOf("e1", "failed") = {}
    /\ \A d \in Deliveries : wh[d].pc \in {"idle", "done"}
    /\ processedEvents["e1"] = NoId
    /\ processedEvents["e2"] = now
    /\ otherEvents.count = MaxOtherKeys
    /\ WithinWindow(otherEvents.at)
    /\ LedgerSize(processedEvents, otherEvents) > LEDGER_LIMIT
    /\ \A x \in OutcomesOf("e1", "processed") :
            /\ otherEvents.at - OutcomeAt(x) <= EVENT_EXPIRY
            /\ now - OutcomeAt(x) > EVENT_EXPIRY

\* ---------------------------------------------------------------------------
\* The token vault with stored texts that do not decrypt
\* ---------------------------------------------------------------------------
TokenFields == {"accessToken", "refreshToken"}

\* a stored text of a token row is damaged, or the key of the process is no
\* longer the one the row was written under (then both texts are lost);
\* taken between requests, as a process starting under another key is
corruptCiphertext(i, fields) ==
    /\ Busy = {}
    /\ i \in DOMAIN tokens
    /\ \E f \in fields : ~ DecryptThrows(tokens[i][f])
    /\ tokens' = [tokens EXCEPT ![i] =
            [@ EXCEPT !.accessToken = IF "accessToken" \in fields
                                      THEN Garbled(@) ELSE @,
                      !.refreshToken = IF "refreshToken" \in fields
                                       THEN Garbled(@) ELSE @]]
    /\ UNCHANGED << now, ticks, ivCount, grants, sessions >>
    /\ UNCHANGED authVars
    /\ UNCHANGED mcpVars
    /\ UNCHANGED whVars
    /\ UNCHANGED sessVars
    /\ UNCHANGED boxVars
    /\ UNCHANGED errVars

NextCorrupt ==
    \/ createSession("a1", "t1")
    \/ storeFirstTokens
    \/ \E i \in TokenIds, fields \in (SUBSET TokenFields) \ {{}} :
          corruptCiphertext(i, fields)
    \/ \E p \in RqProcs, sid \in 1 .. MaxSessions :
          POST_mcp(p, sid, "tools/call", "list-accounts", None)
    \/ \E p \in RqProcs : getXeroClient(p)
    \/ \E p \in RqProcs : getValidTokens_find(p)
    \/ \E p \in RqProcs : refreshAccessToken(p)
    \/ \E p \in RqProcs : getValidTokens_update(p)
    \/ \E p \in RqProcs : getValidTokens_invalidate(p)
    \/ \E p \in RqProcs : getValidTokens_returnNull(p)
    \/ \E p \in RqProcs : callAccountingApi(p)
    \/ TickVault

SpecCorrupt == Init /\ [][NextCorrupt]_vars

\* C38: a decryption failure inside getValidTokens (of the access token or
\* of the refresh token) ends the call with a crypto error, not with a token
\* refresh failure, returns no token, and no step of the call modifies the
\* token rows.
C38_DecryptFailureIsCryptoError ==
    /\ [](\A p \in RqProcs :
            (rq[p].crypto /\ rq[p].pc = "done")
                => /\ rq[p].tokenResult = "CryptoError"
                   /\ rq[p].access = 0
                   /\ ~ rq[p].api)
    /\ [][\A p \in RqProcs :
            (rq'[p].crypto /\ rq'[p] # rq[p]) => tokens' = tokens]_vars

\* ---------------------------------------------------------------------------
\* Termination of the calls to the token endpoint
\* ---------------------------------------------------------------------------
NextHang ==
    \/ createSession("a1", "t1")
    \/ storeFirstTokens
    \/ \E p \in RqProcs, sid \in 1 .. MaxSessions :
          POST_mcp(p, sid, "tools/call", "list-accounts", None)
    \/ \E p \in RqProcs : getXeroClient(p)
    \/ \E p \in RqProcs : getValidTokens_find(p)
    \/ \E p \in RqProcs : refreshAccessToken(p)
    \/ \E p \in RqProcs : getValidTokens_update(p)
    \/ \E p \in RqProcs : getValidTokens_invalidate(p)
    \/ \E p \in RqProcs : getValidTokens_returnNull(p)
    \/ \E p \in RqProcs : callAccountingApi(p)
    \/ TickVault

\* the steps of a handler that wait for nothing outside the deployment (the
\* database, the event loop) are taken; the step of refreshAccessToken is
\* the answer of the authorization server to the fetch, which is passed no
\* AbortSignal: it is taken only if the server answers
HandlerFairness ==
    \A p \in RqProcs :
        /\ WF_vars(getXeroClient(p))
        /\ WF_vars(getValidTokens_find(p))
        /\ WF_vars(getValidTokens_update(p))
        /\ WF_vars(getValidTokens_invalidate(p) \/ getValidTokens_returnNull(p))
        /\ WF_vars(callAccountingApi(p))

SpecHang == Init /\ [][NextHang]_vars /\ HandlerFairness

\* C39: the calls to the token endpoint are bounded in time and fail closed:
\* a getValidTokens call that has sent the refresh exchange ends, with the
\* tokens or with a failure, whether or not the server ever answers.
C39_RefreshTerminates ==
    \A p \in RqProcs : (rq[p].pc = "refresh") ~> (rq[p].pc = "done")

\* ---------------------------------------------------------------------------
\* The maintenance sweep and the OAuthState records
\* ---------------------------------------------------------------------------
NextSweep ==
    \/ \E a \in LoginAccounts : AuthStart(a)
    \/ \E x \in SessionInputs : createSession(x[1], x[2])
    \/ cleanupSessions
    \/ \E p \in RqProcs, sid \in 1 .. MaxSessions :
          POST_mcp(p, sid, "tools/list", None, None)
    \/ TickGate

SpecSweep == Init /\ [][NextSweep]_vars

\* C40: after the maintenance cleanup hook has run, no OAuthState record
\* whose expiresAt is in the past remains, and the hook has removed no
\* unexpired OAuthState record and no unexpired session.
C40_SweepRemovesExpiredStates ==
    [][cleanupSessions
        => /\ \A s \in States :
                oauthStates'[s] # NoRow => ~ (oauthStates'[s].expiresAt < now)
           /\ \A s \in States :
                (oauthStates[s] # NoRow /\ ~ (oauthStates[s].expiresAt < now))
                    => oauthStates'[s] = oauthStates[s]
           /\ \A i \in SessionIds :
                (sessions[i] # NoRow /\ ~ (sessions[i].expiresAt < now))
                    => sessions'[i] = sessions[i]]_vars

=============================================================================
